---- MODULE Spec2Model ----
(***************************************************************************)
(* CCL skin language server: a model of the validation scheduling of       *)
(* server.ts / skindocumentchecker.ts (specification SpecServer) and of    *)
(* the definition index of skinfileinfo.ts / skindefinitionparser.ts       *)
(* (specification SpecIndex); SpecRefresh is the index with edits and the   *)
(* clock, SpecResolver, SpecParser and SpecChecker are the variable         *)
(* resolver, the expression parser and the attribute checks, and            *)
(* SpecClassModel is ClassModelManager.                                     *)
(***************************************************************************)
EXTENDS Integers, Sequences, FiniteSets, TLC

VARIABLES
    now,                  \* the wall clock read by new Date ().valueOf ()
    currentCheckTime,     \* SkinDocumentChecker.currentCheckTime
    documentCheckTimeout, \* server.ts documentCheckTimeout (the handle, or NoTimer)
    timers,               \* the debounce timers pending in the event loop
    starts,               \* validateTextDocument calls waiting in `await findSettings`
    tasks,                \* the setTimeout (..., 0) continuations of checkNode, in order
    walks,                \* every checkDocument promise started so far
    published,            \* connection.sendDiagnostics calls, in order
    dom,                  \* the parent of every element of the open documents
    throwing,             \* the elements whose per-element check throws
    lastChange,           \* history: the time of the most recent content change
    changedAt,            \* history: the time of the latest content change of a document
    platform,             \* os.platform ()
    includeName,          \* the name attribute of the <Include> of skin.xml
    fileText,             \* the text of every file of the skin pack
    modTime,              \* fs.statSync (...).mtime of every file of the skin pack
    currentDocument,      \* DocumentManager.currentDocument: the cached parse
    skinFiles,            \* SkinDefinitionParser.skinFiles: the SkinFileInfo of a path
    fileIncludes,         \* SkinDefinitionParser.fileIncludes of the pack root
    lastQuery,            \* the query answered last, with its result
    elementChain,         \* the element a variable is resolved at, and its ancestors
    variable,             \* the string handed to VariableResolver.resolveVariable
    resolved,             \* what resolveVariable returned, or NotResolved
    expression,           \* the string handed to SkinExpressionParser.evaluate
    evaluated,            \* what evaluate returned, or NotEvaluated
    checkedTag,           \* the element handed to checkAttributes, with one attribute
    checkedType,          \* the AttributeType of that attribute in the class model
    checked,              \* what checkAttributes added, or NotChecked
    modelFiles,           \* the class model and style model files on disk
    classModelManager,    \* the static fields of ClassModelManager
    lastLoad,             \* history: the loadClassModel / loadStyleModel call made last
    latestSkinElementsPath,  \* server.ts: the class model path of the last loadModels
    latestVisualStylesPath,  \* server.ts: the style model path of the last loadModels
    packFiles,            \* the files of a skin pack on disk with their <Include> urls
    callStack,            \* the refreshDefinitions calls in progress, innermost last
    refresh,              \* the outermost refreshDefinitions call and its outcome
    classDefs,            \* skinElementCache: the ClassDef of a class name, with its schema
    isSchemaLoaded,       \* ClassModelManager.isSchemaLoaded
    scopeCheck,           \* the isSkinElementValidInScope call made last
    editedText,           \* the text of the document in the editor, as characters
    targetIndex,          \* the offset of the cursor in the text, from 0
    cclSkinData,          \* the attribute CCLSKINDATA of the tag at the cursor
    completionItems,      \* the completion list of the request made last
    viewDefines,          \* the defines findFormName collects at an element of a form
    viewParents,          \* the elements that instantiate the form of an element
    resolveCall,          \* the resolveVariable call in progress or made last
    resolution            \* the VariableResolutionResult of that call, and where it stands

serverVars == <<now, currentCheckTime, documentCheckTimeout, timers, starts, tasks,
                walks, published, dom, throwing, lastChange, changedAt>>

indexVars == <<platform, includeName, fileText, modTime, currentDocument, skinFiles,
               fileIncludes, lastQuery>>

resolverVars == <<elementChain, variable, resolved>>

parserVars == <<expression, evaluated>>

checkerVars == <<checkedTag, checkedType, checked>>

classModelVars == <<modelFiles, classModelManager, lastLoad,
                    latestSkinElementsPath, latestVisualStylesPath>>

includeVars == <<packFiles, callStack, refresh>>

schemaVars == <<classDefs, isSchemaLoaded, scopeCheck>>

completionVars == <<editedText, targetIndex, cclSkinData, completionItems>>

resolutionVars == <<viewDefines, viewParents, resolveCall, resolution>>

\* the state of the further components
furtherVars == <<includeVars, schemaVars, completionVars, resolutionVars>>

coreLanguageVars == <<resolverVars, parserVars, checkerVars, classModelVars>>

languageVars == <<resolverVars, parserVars, checkerVars, classModelVars, furtherVars>>

vars == <<serverVars, indexVars, languageVars>>

----------------------------------------------------------------------------
(* Bounds of the model *)

TickStep == 250
MaxTime == 1750
MaxValidations == 2
NumNodes == 3
MaxItems == 3
MaxRootItems == 1

(* Program constants *)

kValidationDelay == 500
kMinRefreshInterval == 500

----------------------------------------------------------------------------
(* The open documents and their DOM.  Elements are numbered in document    *)
(* order (preorder); 0 is the <Skin> root.                                 *)

Docs == {"d1", "d2"}
DocOrder == <<"d1", "d2">>
Nodes == 1..NumNodes
NoTimer == [doc |-> "none", due |-> 0, replaced |-> FALSE]

RECURSIVE Ancestors(_, _)
Ancestors(p, n) == IF n = 0 THEN {0} ELSE {n} \cup Ancestors(p, p[n])

\* parent functions whose numbering is the document order
TreeShapes ==
    {p \in [Nodes -> 0..(NumNodes - 1)] :
        /\ p[1] = 0
        /\ \A i \in Nodes : i > 1 => p[i] \in Ancestors(p, i - 1)}

RECURSIVE SeqOfSet(_)
SeqOfSet(S) ==
    IF S = {} THEN <<>>
    ELSE LET m == CHOOSE x \in S : \A y \in S : x <= y
         IN <<m>> \o SeqOfSet(S \ {m})

\* node.children, in document order
Children(p, n) == SeqOfSet({c \in Nodes : p[c] = n})

\* addDiagnostic for the element, then checkAttributes for its attributes
NodeDiagnostics(c) == <<[kind |-> "element", node |-> c], [kind |-> "attribute", node |-> c]>>

\* the then-branch of checkDocument: unclosed tags, dangling tags, duplicates
PostWalkDiagnostics ==
    << [kind |-> "unclosed", node |-> 0], [kind |-> "dangling", node |-> 0],
       [kind |-> "duplicate", node |-> 0] >>

----------------------------------------------------------------------------
(* checkNode: one synchronous run.  st.budget is the number of checkNode   *)
(* calls that still find currentTime - timestamp <= kValidationDelay.      *)

RECURSIVE CheckNode(_, _, _), CheckChildren(_, _, _)
CheckNode(p, n, st) ==
    IF st.budget = 0
    THEN [st EXCEPT !.deferred = Append(@, n)]
    ELSE CheckChildren(p, Children(p, n), [st EXCEPT !.budget = @ - 1])

CheckChildren(p, cs, st) ==
    IF cs = <<>> THEN st
    ELSE LET c == Head(cs) IN
         IF c \in throwing
         THEN [st EXCEPT !.rejected = TRUE, !.threw = TRUE]
         ELSE CheckChildren(p, Tail(cs),
                 CheckNode(p, c, [st EXCEPT !.diags = @ \o NodeDiagnostics(c)]))

NewRun(budget) ==
    [diags |-> <<>>, deferred |-> <<>>, rejected |-> FALSE, threw |-> FALSE,
     budget |-> budget]

\* the first clock value at which currentTime - timestamp > kValidationDelay
RECURSIVE YieldTime(_, _)
YieldTime(t, timestamp) ==
    IF t - timestamp > kValidationDelay THEN t ELSE YieldTime(t + TickStep, timestamp)

\* the number of checkNode calls of a run that find the delay not yet exceeded
RunBudgets(timestamp) ==
    IF now - timestamp > kValidationDelay THEN {0}
    ELSE {b \in 0..(NumNodes + 1) : b = NumNodes + 1 \/ YieldTime(now, timestamp) <= MaxTime}

\* the clock at the end of run r: it has passed the delay when r deferred a node
RunEnd(timestamp, r) ==
    IF r.deferred = <<>> THEN now ELSE YieldTime(now, timestamp)

\* the walk after a run r: Promise.all, and the then-branch of checkDocument
AfterRun(w, r, resumed) ==
    LET pending == w.pending - resumed + Len(r.deferred)
        rejected == r.rejected
        status == IF w.status # "running" THEN w.status
                  ELSE IF rejected THEN "rejected"
                  ELSE IF pending = 0 THEN "resolved"
                  ELSE "running"
        diags == w.diags \o r.diags
    IN [w EXCEPT !.pending = pending,
                 !.status = status,
                 !.threw = @ \/ r.threw,
                 !.diags = IF status = "resolved" /\ w.status = "running"
                           THEN diags \o PostWalkDiagnostics ELSE diags]

Deferred(id, r, timestamp) ==
    [i \in 1..Len(r.deferred) |-> [walk |-> id, node |-> r.deferred[i], timestamp |-> timestamp]]

\* connection.sendDiagnostics in the then-branch of validateTextDocument
Publish(pub, before, after, id) ==
    IF before.status = "running" /\ after.status = "resolved"
    THEN Append(pub, [walk |-> id, doc |-> after.doc, diags |-> after.diags])
    ELSE pub

----------------------------------------------------------------------------
(* The handlers of server.ts *)

Requested == Len(walks) + Len(starts) + Cardinality(timers)

\* validateTextDocument up to `await findSettings`
ValidateTextDocument(q, d, via, waited, replaced) ==
    Append(q, [doc |-> d, via |-> via, waited |-> waited, replaced |-> replaced])

AbortCurrentCheckSkipped == currentCheckTime

\* SkinDocumentChecker.abortCurrentCheck
AbortCurrentCheck == now

\* the walks a content change finds in flight: started, yielded, not yet settled
Superseded(ws) ==
    [i \in 1..Len(ws) |->
        IF ws[i].status = "running" /\ ws[i].pending > 0
        THEN [ws[i] EXCEPT !.superseded = TRUE] ELSE ws[i]]

ClearTimeoutSkipped(ts, h) == ts

\* clearTimeout (documentCheckTimeout)
ClearTimeout(ts, h) == ts \ {h}

\* documents.onDidChangeContent
ContentChange(d) ==
    /\ UNCHANGED <<indexVars, languageVars>>
    /\ Requested < MaxValidations \/ documentCheckTimeout # NoTimer
    /\ currentCheckTime' = AbortCurrentCheck
    /\ LET t == [doc |-> d, due |-> now + kValidationDelay,
                 replaced |-> documentCheckTimeout # NoTimer]
           kept == IF documentCheckTimeout # NoTimer
                   THEN ClearTimeout(timers, documentCheckTimeout) ELSE timers
       IN /\ timers' = kept \cup {t}
          /\ documentCheckTimeout' = t
    /\ lastChange' = now
    /\ changedAt' = [changedAt EXCEPT ![d] = now]
    /\ walks' = Superseded(walks)
    /\ UNCHANGED <<now, starts, tasks, published, dom, throwing>>

\* the callback `later` of onDidChangeContent, run by the timer
TimerFire ==
    \E t \in timers :
        /\ UNCHANGED <<indexVars, languageVars>>
        /\ now >= t.due
        /\ timers' = timers \ {t}
        /\ starts' = ValidateTextDocument(starts, t.doc, "debounce", now - lastChange,
                                           t.replaced)
        /\ documentCheckTimeout' = NoTimer
        /\ UNCHANGED <<now, currentCheckTime, tasks, walks, published, dom, throwing,
                       lastChange, changedAt>>

\* connection.onDidChangeConfiguration: documents.all ().forEach (validateTextDocument)
ConfigurationChange ==
    /\ UNCHANGED <<indexVars, languageVars>>
    /\ Requested + Len(DocOrder) <= MaxValidations
    /\ starts' = ValidateTextDocument(
                     ValidateTextDocument(starts, DocOrder[1], "configuration", 0, FALSE),
                     DocOrder[2], "configuration", 0, FALSE)
    /\ UNCHANGED <<now, currentCheckTime, documentCheckTimeout, timers, tasks, walks,
                   published, dom, throwing, lastChange, changedAt>>

\* the notification onDidChangeActiveTextEditor
ActiveTextEditor(d) ==
    /\ UNCHANGED <<indexVars, languageVars>>
    /\ Requested < MaxValidations
    /\ starts' = ValidateTextDocument(starts, d, "editor", 0, FALSE)
    /\ UNCHANGED <<now, currentCheckTime, documentCheckTimeout, timers, tasks, walks,
                   published, dom, throwing, lastChange, changedAt>>

\* validateTextDocument after the await: checkDocument and the first checkNode
StartWalk ==
    /\ UNCHANGED <<indexVars, languageVars>>
    /\ starts # <<>>
    /\ LET s == Head(starts)
           id == Len(walks) + 1
           w0 == [doc |-> s.doc, via |-> s.via, waited |-> s.waited,
                  replaced |-> s.replaced,
                  originalTime |-> currentCheckTime, diags |-> <<>>, pending |-> 0,
                  status |-> "running", threw |-> FALSE, aborted |-> FALSE,
                  superseded |-> FALSE,
                  inflight |-> {i \in 1..Len(walks) :
                                   walks[i].status = "running" /\ walks[i].pending > 0}]
       IN \E b \in RunBudgets(currentCheckTime) :
            LET r == CheckNode(dom, 0, NewRun(b))
                w1 == AfterRun(w0, r, 0)
                end == RunEnd(currentCheckTime, r)
            IN /\ walks' = Append(walks, w1)
               /\ tasks' = tasks \o Deferred(id, r, end)
               /\ published' = Publish(published, w0, w1, id)
               /\ now' = end
    /\ starts' = Tail(starts)
    /\ UNCHANGED <<currentCheckTime, documentCheckTimeout, timers, dom, throwing, lastChange, changedAt>>

StaleNever(w) == FALSE

\* checkNode: originalTime < this.currentCheckTime
Stale(w) == w.originalTime < currentCheckTime

\* a setTimeout (..., 0) continuation of checkNode
RunTask ==
    /\ UNCHANGED <<indexVars, languageVars>>
    /\ tasks # <<>>
    /\ LET t == Head(tasks)
           w0 == walks[t.walk]
       IN IF Stale(w0)
          THEN \* the walk is stale: the promise is rejected
               /\ walks' = [walks EXCEPT ![t.walk] =
                               [w0 EXCEPT !.pending = @ - 1,
                                          !.aborted = TRUE,
                                          !.status = IF @ = "running" THEN "rejected" ELSE @]]
               /\ tasks' = Tail(tasks)
               /\ UNCHANGED <<now, published>>
          ELSE \E b \in RunBudgets(t.timestamp) :
                 LET r == CheckNode(dom, t.node, NewRun(b))
                     w1 == AfterRun(w0, r, 1)
                     end == RunEnd(t.timestamp, r)
                 IN /\ walks' = [walks EXCEPT ![t.walk] = w1]
                    /\ tasks' = Tail(tasks) \o Deferred(t.walk, r, end)
                    /\ published' = Publish(published, w0, w1, t.walk)
                    /\ now' = end
    /\ UNCHANGED <<currentCheckTime, documentCheckTimeout, timers, starts, dom, throwing,
                   lastChange, changedAt>>

\* time passes while the event loop is idle
Tick ==
    /\ UNCHANGED <<indexVars, languageVars>>
    /\ now + TickStep <= MaxTime
    /\ now' = now + TickStep
    /\ UNCHANGED <<currentCheckTime, documentCheckTimeout, timers, starts, tasks, walks,
                   published, dom, throwing, lastChange, changedAt>>

----------------------------------------------------------------------------
(* The skin pack: skin.xml, the root of the pack, and the file it includes. *)
(* A file is the sequence of the children of its <Styles> element: Style    *)
(* elements and processing instructions.  The range of an element is its    *)
(* position in that sequence.                                              *)

kSkinXMLFileName == "skin.xml"
IncludedFile == "a.xml"
Files == {kSkinXMLFileName, IncludedFile}
Namespaces == {"", "A"}
Names == {"X"}
Platforms == {"darwin", "win32", "linux"}

Element(name, override, appstyle) ==
    [tag |-> "Style", name |-> name, override |-> override, appstyle |-> appstyle, arg |-> ""]

\* <?tag arg?>; htmlparser2 gives it the name `tag` and the data "tag arg?"
Directive(tag, arg) ==
    [tag |-> tag, name |-> "", override |-> FALSE, appstyle |-> FALSE, arg |-> arg]

StyleElements == {Element(n, o, FALSE) : n \in Names, o \in BOOLEAN}

Directives ==
    { Directive("?platform", "mac"), Directive("?not:platform", "mac"),
      Directive("?platform?", ""), Directive("?language", "de") }

Items == StyleElements \cup Directives

Texts(n) == UNION {[1..k -> Items] : k \in 0..n}

IsTag(item) == item.tag = "Style"

\* a reference as written in an attribute: "name", "/name" or "ns/name"
Value(abs, ns, name) == [abs |-> abs, ns |-> ns, name |-> name]

QueryValues == {Value(FALSE, "", "X"), Value(TRUE, "", "X"), Value(FALSE, "A", "X")}

NoName == ""
NoRange == 0
NoLocation == [uri |-> "", range |-> NoRange]
NoDefinitions == [n \in Names |-> NoRange]
NoQuery == [op |-> "none"]
NoDocument == [uri |-> "", text |-> <<>>]

\* enum DefinitionType, in its order, restricted to the types of Style elements
DefinitionType == <<"kStyle", "kAppStyle">>

\* enum IterateOptions, as the sets of flags of the bit masks
IterateOptions == SUBSET {"kIsUnqualifiedForm", "kAllowForeignNamespaces"}

\* fs.statSync (fullPath).mtime: the files were saved before the server started
FileModTime == TickStep

----------------------------------------------------------------------------
(* SkinFileInfo *)

\* history: the circumstances of the latest parse of a SkinFileInfo
NoParse == [first |-> TRUE, gap |-> 0, document |-> FALSE, edited |-> FALSE, newer |-> FALSE,
            text |-> <<>>]

NewSkinFileInfo(url, namespace) ==
    [url |-> url, namespace |-> namespace,
     styleDefinitions |-> NoDefinitions, appStyleDefinitions |-> NoDefinitions,
     duplicateDefinitions |-> <<>>,
     containsPlatformDefinitions |-> FALSE, containsOptionalDefinitions |-> FALSE,
     latestRefresh |-> 0, latestFileModification |-> 0,
     lastParse |-> NoParse]

\* documentText.indexOf ("<?platform") > -1
ContainsPlatformDefinitions(text) ==
    \E i \in 1..Len(text) : text[i].tag \in {"?platform", "?platform?"}

\* documentText contains "<?language", "<?defined" or "<?not:"
ContainsOptionalDefinitions(text) ==
    \E i \in 1..Len(text) : text[i].tag \in {"?language", "?defined", "?not:platform"}

PlatformString ==
    IF platform = "darwin" THEN "mac" ELSE IF platform = "win32" THEN "win" ELSE ""

\* prevElem.data.indexOf (" " + platformString) > -1
DataNamesPlatform(item, platformString) ==
    IF platformString = "" THEN item.arg # "" ELSE item.arg = platformString

\* the loop of isDefinedForPlatform over the previous siblings, nearest first
RECURSIVE PlatformOfPreviousSiblings(_, _)
PlatformOfPreviousSiblings(text, j) ==
    IF j = 0 THEN TRUE
    ELSE IF text[j].tag = "?platform" THEN DataNamesPlatform(text[j], PlatformString)
    ELSE IF text[j].tag = "?not:platform" THEN ~DataNamesPlatform(text[j], PlatformString)
    ELSE IF text[j].tag = "?platform?" THEN TRUE
    ELSE IF text[j].tag = "?desktop_platform" THEN text[j].arg = "1"
    ELSE PlatformOfPreviousSiblings(text, j - 1)

isDefinedForPlatform(info, text, i) ==
    IF ~info.containsPlatformDefinitions THEN TRUE
    ELSE PlatformOfPreviousSiblings(text, i - 1)

isOptionallyDefined(info, text, i) ==
    IF ~info.containsOptionalDefinitions THEN FALSE
    ELSE \E j \in 1..(i - 1) : text[j].tag \in {"?language", "?defined", "?not:platform"}

\* null when the element is not defined for the platform
getRangeFromElement(info, text, i) ==
    IF isDefinedForPlatform(info, text, i) THEN i ELSE NoRange

addDuplicateDefinition(dups, url, name, type, range, otherRange) ==
    IF \E k \in 1..Len(dups) :
          dups[k].name = name /\ dups[k].type = type /\ dups[k].range = range
    THEN dups
    ELSE Append(dups, [name |-> name, type |-> type, range |-> range,
                       otherDefinition |-> [uri |-> url, range |-> otherRange]])

\* parseElement from element i on; acc holds the definitions map of the type and
\* the duplicate records
RECURSIVE parseElement(_, _, _, _, _)
parseElement(info, text, type, i, acc) ==
    IF i > Len(text) THEN acc
    ELSE IF ~IsTag(text[i]) \/ (type = "kAppStyle" /\ ~text[i].appstyle)
    THEN parseElement(info, text, type, i + 1, acc)
    ELSE LET range == getRangeFromElement(info, text, i)
             elementName == text[i].name
             otherRange == acc.definitions[elementName]
             dups == IF otherRange # NoRange /\ ~isOptionallyDefined(info, text, i)
                     THEN addDuplicateDefinition(acc.duplicates, info.url,
                              Value(FALSE, "", elementName), type, range, otherRange)
                     ELSE acc.duplicates
         IN IF range = NoRange THEN parseElement(info, text, type, i + 1, acc)
            ELSE parseElement(info, text, type, i + 1,
                     [definitions |-> [acc.definitions EXCEPT ![elementName] = range],
                      duplicates |-> dups])

parseSkinFile(info, text) ==
    LET flagged == [info EXCEPT
                      !.containsPlatformDefinitions = ContainsPlatformDefinitions(text),
                      !.containsOptionalDefinitions = ContainsOptionalDefinitions(text)]
        styles == parseElement(flagged, text, "kStyle", 1,
                      [definitions |-> flagged.styleDefinitions,
                       duplicates |-> flagged.duplicateDefinitions])
        appStyles == parseElement(flagged, text, "kAppStyle", 1,
                      [definitions |-> flagged.appStyleDefinitions,
                       duplicates |-> styles.duplicates])
    IN [flagged EXCEPT !.styleDefinitions = styles.definitions,
                       !.appStyleDefinitions = appStyles.definitions,
                       !.duplicateDefinitions = appStyles.duplicates]

RefreshedRecentlyNever(info) == FALSE

\* currentTime - this.latestRefresh < SkinFileInfo.kMinRefreshInterval
RefreshedRecently(info) == now - info.latestRefresh < kMinRefreshInterval

\* whether refreshDefinitions gets as far as resetting and parsing
Reparses(info, document) ==
    /\ ~RefreshedRecently(info)
    /\ document \/ modTime[info.url] > info.latestFileModification

\* history: how the parse that refreshDefinitions is about to make came about
ParseRecord(info, document) ==
    [first |-> info.latestRefresh = 0, gap |-> now - info.latestRefresh,
     document |-> document, edited |-> fileText[info.url] # info.lastParse.text,
     newer |-> modTime[info.url] > info.latestFileModification,
     text |-> fileText[info.url]]

refreshDefinitions(info, document) ==
    IF RefreshedRecently(info) THEN info
    ELSE IF ~Reparses(info, document) THEN [info EXCEPT !.latestRefresh = now]
    ELSE parseSkinFile(
             [info EXCEPT !.latestRefresh = now,
                          !.latestFileModification =
                              IF document THEN now ELSE modTime[info.url],
                          !.lastParse = ParseRecord(info, document),
                          !.styleDefinitions = NoDefinitions,
                          !.appStyleDefinitions = NoDefinitions,
                          !.duplicateDefinitions = <<>>],
             fileText[info.url])

getDefinitionsForType(info, type) ==
    IF type = "kStyle" THEN info.styleDefinitions ELSE info.appStyleDefinitions

matchNamespace(info, value, forceQualified) ==
    IF value.abs /\ info.namespace # "" THEN NoName
    ELSE IF value.ns # ""
    THEN (IF value.ns = info.namespace THEN value.name ELSE NoName)
    ELSE IF forceQualified
    THEN (IF info.namespace = "" THEN value.name ELSE NoName)
    ELSE value.name

\* SkinFileInfo.lookupDefinition
InfoLookupDefinition(info, type, value, forceQualified) ==
    LET definitions == getDefinitionsForType(info, type)
        defName == matchNamespace(info, value, forceQualified)
    IN IF (\E n \in Names : definitions[n] # NoRange) /\ defName # NoName
          /\ definitions[defName] # NoRange
       THEN [uri |-> info.url, range |-> definitions[defName]]
       ELSE NoLocation

\* SkinFileInfo.isDefined
InfoIsDefined(info, type, value, forceQualified) ==
    LET definitions == getDefinitionsForType(info, type)
        styleName == matchNamespace(info, value, forceQualified)
    IN styleName # NoName /\ definitions[styleName] # NoRange

----------------------------------------------------------------------------
(* SkinDefinitionParser and DocumentManager *)

\* the Include elements of skin.xml, then the root itself
findIncludedSkinFiles ==
    <<[namespace |-> includeName, url |-> IncludedFile],
      [namespace |-> "", url |-> kSkinXMLFileName]>>

\* the tag at the start of the location in the text of the document, or no tag
findTokenAtTagLocation(location) ==
    IF location.uri \in Files /\ location.range \in 1..Len(fileText[location.uri])
       /\ IsTag(fileText[location.uri][location.range])
    THEN fileText[location.uri][location.range]
    ELSE Directive("", "")

\* token != null && token.tag.attribs[kOverrideAttribute] is "true"
HasOverride(location) ==
    LET token == findTokenAtTagLocation(location)
    IN IsTag(token) /\ token.override

canBeQualified(type) == type \notin {"kColor", "kFont"}

qualifyName(url, value) ==
    IF value.abs THEN value
    ELSE IF value.ns # "" THEN value
    ELSE IF url \notin DOMAIN skinFiles THEN value
    ELSE IF skinFiles[url].namespace # ""
    THEN Value(FALSE, skinFiles[url].namespace, value.name)
    ELSE value

IsForeignNever(options, namespace, info) == FALSE

\* the namespace condition under which forEachFileInScope skips a file
IsForeign(options, namespace, info) ==
    /\ "kAllowForeignNamespaces" \notin options
    /\ namespace # ""
    /\ info.namespace # namespace

\* the files forEachFileInScope hands to the callback, in order, when the
\* callback never ends the iteration
forEachFileInScope(url, options) ==
    LET known == url \in DOMAIN skinFiles
        namespace == IF known /\ "kIsUnqualifiedForm" \in options
                     THEN skinFiles[url].namespace ELSE ""
        Visits(f) == /\ f # url
                     /\ f \in DOMAIN skinFiles
                     /\ ~IsForeign(options, namespace, skinFiles[f])
    IN (IF known THEN <<url>> ELSE <<>>) \o SelectSeq(fileIncludes, Visits)

\* the files processFile has reached when the callback ends the iteration at
\* the first file that satisfies Hit
RECURSIVE Visited(_, _)
Visited(files, hit) ==
    IF files = <<>> THEN <<>>
    ELSE IF Head(files) \in hit THEN <<Head(files)>>
    ELSE <<Head(files)>> \o Visited(Tail(files), hit)

Range(seq) == {seq[k] : k \in 1..Len(seq)}

RefreshedNever(files) == skinFiles

\* processFile: file.refreshDefinitions () of every file reached
Refreshed(files) ==
    [f \in DOMAIN skinFiles |->
        IF f \in Range(files) THEN refreshDefinitions(skinFiles[f], FALSE) ELSE skinFiles[f]]

\* the callback of isDefinedStrict
IsDefinedIn(info, url, type, value) ==
    LET qualifiedValue == IF canBeQualified(type) THEN qualifyName(url, value) ELSE value
    IN IF ~canBeQualified(type) THEN InfoIsDefined(info, type, value, FALSE)
       ELSE \/ InfoIsDefined(info, type, qualifiedValue, FALSE)
            \/ /\ type = "kStyle"
               /\ ~value.abs /\ value.ns = ""
               /\ InfoIsDefined(info, "kAppStyle", value, FALSE)

\* the callback of lookupDefinition
LookupIn(info, url, type, value) ==
    LET qualifiedValue == IF canBeQualified(type) THEN qualifyName(url, value) ELSE value
        loc == InfoLookupDefinition(info, type, value, FALSE)
    IN IF loc = NoLocation /\ value # qualifiedValue /\ canBeQualified(type)
       THEN InfoLookupDefinition(info, type, qualifiedValue, FALSE)
       ELSE loc

RECURSIVE Hits(_, _, _, _, _)
Hits(infos, files, url, type, value) ==
    IF files = <<>> THEN <<>>
    ELSE LET loc == LookupIn(infos[Head(files)], url, type, value)
         IN (IF loc = NoLocation THEN <<>> ELSE <<loc>>)
            \o Hits(infos, Tail(files), url, type, value)

OverrideIgnored(result) == result

\* lookupDefinition, once the scope is traversed: if (result.length > 1) ...
OverrideWins(result) ==
    IF Len(result) > 1 /\ \E k \in 1..Len(result) : HasOverride(result[k])
    THEN <<result[CHOOSE k \in 1..Len(result) :
                     /\ HasOverride(result[k])
                     /\ \A j \in 1..(k - 1) : ~HasOverride(result[j])]>>
    ELSE result

equalTypes(t1, t2) ==
    t1 = t2 \/ (t1 \in {"kStyle", "kAppStyle"} /\ t2 \in {"kStyle", "kAppStyle"})

\* the body of `for(let d in defs)` in the callback of getDuplicateDefinitions
DuplicateOf(result, url, file, info, type, d) ==
    LET range == getDefinitionsForType(file, type)[d]
        skipped == file.namespace = "" /\ info.namespace # ""
        name == IF file.namespace # "" /\ info.namespace # ""
                THEN Value(FALSE, file.namespace, d) ELSE Value(FALSE, "", d)
        otherDefinition == InfoLookupDefinition(info, type, name, FALSE)
        location == [uri |-> url, range |-> range]
        overridden == /\ IsTag(findTokenAtTagLocation(location))
                      /\ IsTag(findTokenAtTagLocation(otherDefinition))
                      /\ (HasOverride(location) \/ HasOverride(otherDefinition))
        found == \E k \in 1..Len(result) :
                    /\ result[k].name = name
                    /\ equalTypes(result[k].type, type)
                    /\ result[k].range = range
                    /\ result[k].otherDefinition = otherDefinition
    IN IF range = NoRange \/ skipped \/ otherDefinition = NoLocation \/ overridden \/ found
       THEN result
       ELSE Append(result, [name |-> name, type |-> type, range |-> range,
                            otherDefinition |-> otherDefinition])

\* `for(let type in DefinitionType)` from the k-th type on; one name per type
RECURSIVE DuplicatesIn(_, _, _, _, _)
DuplicatesIn(result, url, file, info, k) ==
    IF k > Len(DefinitionType) THEN result
    ELSE DuplicatesIn(
             DuplicateOf(result, url, file, info, DefinitionType[k], CHOOSE n \in Names : TRUE),
             url, file, info, k + 1)

\* the traversal of getDuplicateDefinitions over the other files of the scope
RECURSIVE DuplicatesAcross(_, _, _, _)
DuplicatesAcross(result, url, infos, files) ==
    IF files = <<>> THEN result
    ELSE DuplicatesAcross(
             IF Head(files) = url THEN result
             ELSE DuplicatesIn(result, url, infos[url], infos[Head(files)], 1),
             url, infos, Tail(files))

----------------------------------------------------------------------------
(* The operations on the index *)

\* buildDefinitionDirectory (document, ...): loadSkinFiles of the pack
BuildDefinitionDirectory(document) ==
    LET currentSkinFiles == skinFiles
        skinPack == findIncludedSkinFiles
        Load(entry) ==
            LET refreshNeeded == entry.url \notin DOMAIN currentSkinFiles
                skinFile == IF refreshNeeded
                            THEN NewSkinFileInfo(entry.url, entry.namespace)
                            ELSE [currentSkinFiles[entry.url] EXCEPT
                                     !.namespace = entry.namespace]
            IN IF entry.url = document \/ refreshNeeded
               THEN refreshDefinitions(skinFile, entry.url = document)
               ELSE skinFile
    IN /\ skinFiles' = [f \in Range([k \in 1..Len(skinPack) |-> skinPack[k].url]) |->
                           Load(skinPack[CHOOSE k \in 1..Len(skinPack) : skinPack[k].url = f])]
       /\ fileIncludes' = fileIncludes \o
              SelectSeq([k \in 1..Len(skinPack) |-> skinPack[k].url],
                        LAMBDA f : f \notin Range(fileIncludes))
       /\ lastQuery' = NoQuery
       /\ UNCHANGED <<platform, includeName, fileText, modTime, currentDocument>>
       /\ UNCHANGED <<serverVars, languageVars>>

\* SkinDefinitionParser.isDefined (url, type, value)
IsDefined(url, type, value) ==
    /\ lastQuery.op = "none"
    /\ url \in DOMAIN skinFiles
    /\ LET scope == forEachFileInScope(url, {})
           Hit(f) == IsDefinedIn(refreshDefinitions(skinFiles[f], FALSE), url, type, value)
           visited == Visited(scope, {f \in Range(scope) : Hit(f)})
       IN /\ skinFiles' = Refreshed(visited)
          /\ lastQuery' = [op |-> "isDefined", url |-> url, type |-> type, value |-> value,
                           result |-> \E f \in Range(visited) : Hit(f)]
    /\ UNCHANGED <<platform, includeName, fileText, modTime, currentDocument, fileIncludes>>
    /\ UNCHANGED <<serverVars, languageVars>>

\* SkinDefinitionParser.lookupDefinition (url, type, elem, value)
LookupDefinition(url, type, value) ==
    /\ lastQuery.op = "none"
    /\ url \in DOMAIN skinFiles
    /\ LET scope == forEachFileInScope(url, {})
           infos == Refreshed(scope)
           hits == Hits(infos, scope, url, type, value)
       IN /\ skinFiles' = infos
          /\ lastQuery' = [op |-> "lookupDefinition", url |-> url, type |-> type,
                           value |-> value, hits |-> hits, result |-> OverrideWins(hits)]
    /\ UNCHANGED <<platform, includeName, fileText, modTime, currentDocument, fileIncludes>>
    /\ UNCHANGED <<serverVars, languageVars>>

\* SkinDefinitionParser.getDuplicateDefinitions (url)
GetDuplicateDefinitions(url) ==
    /\ lastQuery.op = "none"
    /\ url \in DOMAIN skinFiles
    /\ LET result == skinFiles[url].duplicateDefinitions
           scope == forEachFileInScope(url, {})
           infos == Refreshed(scope)
           all == DuplicatesAcross(result, url, infos, scope)
       IN /\ skinFiles' =
                 IF Reparses(skinFiles[url], FALSE) THEN infos
                 ELSE [infos EXCEPT ![url].duplicateDefinitions = all]
          /\ lastQuery' = [op |-> "getDuplicateDefinitions", url |-> url, result |-> all]
    /\ UNCHANGED <<platform, includeName, fileText, modTime, currentDocument, fileIncludes>>
    /\ UNCHANGED <<serverVars, languageVars>>

\* SkinDefinitionParser.forEachFileInScope (url, options, ...) with a callback
\* that records the file and goes on
ForEachFileInScope(url, options) ==
    /\ lastQuery.op = "none"
    /\ url \in DOMAIN skinFiles
    /\ LET scope == forEachFileInScope(url, options)
       IN /\ skinFiles' = Refreshed(scope)
          /\ lastQuery' = [op |-> "forEachFileInScope", url |-> url, options |-> options,
                           result |-> scope]
    /\ UNCHANGED <<platform, includeName, fileText, modTime, currentDocument, fileIncludes>>
    /\ UNCHANGED <<serverVars, languageVars>>

----------------------------------------------------------------------------
(* Edits, and the completion and hover queries *)

\* the texts an edit or a write can leave in a file
RefreshTexts ==
    { <<Element("X", FALSE, FALSE)>>,
      <<Element("X", FALSE, TRUE), Element("X", FALSE, TRUE)>> }

\* DocumentManager.getCurrentDocument (uri, forceUpdate)
getCurrentDocument(uri, forceUpdate) ==
    IF forceUpdate \/ currentDocument = NoDocument \/ currentDocument.uri # uri
    THEN [uri |-> uri, text |-> fileText[uri]]
    ELSE currentDocument

\* the user edits the open document: its text changes, the file on disk does not
EditDocument(text) ==
    /\ text # fileText[IncludedFile]
    /\ fileText' = [fileText EXCEPT ![IncludedFile] = text]
    /\ UNCHANGED <<platform, includeName, modTime, currentDocument, skinFiles, fileIncludes,
                   lastQuery>>
    /\ UNCHANGED <<serverVars, languageVars>>

\* another program rewrites skin.xml on disk
WriteFile(text) ==
    /\ text # fileText[kSkinXMLFileName]
    /\ now > modTime[kSkinXMLFileName]
    /\ modTime[kSkinXMLFileName] = FileModTime
    /\ fileText' = [fileText EXCEPT ![kSkinXMLFileName] = text]
    /\ modTime' = [modTime EXCEPT ![kSkinXMLFileName] = now]
    /\ UNCHANGED <<platform, includeName, currentDocument, skinFiles, fileIncludes, lastQuery>>
    /\ UNCHANGED <<serverVars, languageVars>>

\* the state a query can touch, as it is before the query
AnalyzerState ==
    [skinFiles |-> skinFiles, fileIncludes |-> fileIncludes,
     currentDocument |-> currentDocument]

\* connection.onCompletion for an attribute value that names a definition:
\* getCompletionInformation, getCompletionInformationForType, findDefinitions
Completion(url) ==
    /\ lastQuery.op = "none"
    /\ url \in DOMAIN skinFiles
    /\ currentDocument' = getCurrentDocument(url, TRUE)
    /\ skinFiles' = Refreshed(forEachFileInScope(url, {"kAllowForeignNamespaces"}))
    /\ lastQuery' = [op |-> "completion", url |-> url, before |-> AnalyzerState]
    /\ UNCHANGED <<platform, includeName, fileText, modTime, fileIncludes>>
    /\ UNCHANGED <<serverVars, languageVars>>

\* connection.onHover: getHoverInformation, findTokenAtPosition
Hover(url) ==
    /\ lastQuery.op = "none"
    /\ url \in DOMAIN skinFiles
    /\ currentDocument' = getCurrentDocument(url, FALSE)
    /\ lastQuery' = [op |-> "hover", url |-> url, before |-> AnalyzerState]
    /\ UNCHANGED <<platform, includeName, fileText, modTime, skinFiles, fileIncludes>>
    /\ UNCHANGED <<serverVars, languageVars>>

\* documents.onDidChangeContent for the open document with its new text: the
\* validation is due kValidationDelay later
ChangeContent(text) ==
    /\ text # fileText[IncludedFile]
    /\ fileText' = [fileText EXCEPT ![IncludedFile] = text]
    /\ lastChange' = now
    /\ UNCHANGED <<platform, includeName, modTime, currentDocument, skinFiles, fileIncludes,
                   lastQuery>>
    /\ UNCHANGED <<now, currentCheckTime, documentCheckTimeout, timers, starts, tasks, walks,
                   published, dom, throwing, changedAt>>
    /\ UNCHANGED languageVars

\* the debounce timer of the latest change has fired: validateTextDocument
\* of the open document, as far as buildDefinitionDirectory
ValidateDocument ==
    /\ now - lastChange >= kValidationDelay
    /\ BuildDefinitionDirectory(IncludedFile)

----------------------------------------------------------------------------
(* The variable resolver (variableresolver.ts).  A string is a sequence of  *)
(* characters; "@foreach:(" and "@foreach:([" are written as one character. *)

\* variableresolver.ts:454, the largest count of a <foreach> that is unrolled
kMaxUnrolledCount == 100

\* a result named once: Then (value), with value worked out only where
\* Then uses it
Bind(value, Then(_)) == Then(value)

Digits == <<"0", "1", "2", "3", "4", "5", "6", "7", "8", "9">>

IsDigit(c) == \E k \in 1..10 : Digits[k] = c

DigitValue(c) == (CHOOSE k \in 1..10 : Digits[k] = c) - 1

\* String.indexOf for a set of characters: the first position (from 0), or -1
indexOf(str, chars) ==
    LET found == {k \in 1..Len(str) : str[k] \in chars}
    IN IF found = {} THEN -1 ELSE (CHOOSE k \in found : \A j \in found : k <= j) - 1

substring(str, from) == SubSeq(str, from + 1, Len(str))

startsWith(str, prefix) ==
    Len(prefix) <= Len(str) /\ SubSeq(str, 1, Len(prefix)) = prefix

\* String.split at every character of the set
RECURSIVE split(_, _)
split(str, chars) ==
    LET i == indexOf(str, chars)
    IN IF i = -1 THEN <<str>>
       ELSE <<SubSeq(str, 1, i)>> \o split(substring(str, i + 1), chars)

\* Array.join
RECURSIVE join(_, _)
join(strs, sep) ==
    IF strs = <<>> THEN <<>>
    ELSE IF Len(strs) = 1 THEN strs[1]
    ELSE strs[1] \o sep \o join(Tail(strs), sep)

\* SkinDefinitionParser.isNumeric, for strings of digits, "-" and letters
isNumeric(str) ==
    LET digits == IF str # <<>> /\ str[1] = "-" THEN Tail(str) ELSE str
    IN digits # <<>> /\ \A k \in 1..Len(digits) : IsDigit(digits[k])

\* the unary + of a numeric string
RECURSIVE toNumber(_)
toNumber(str) ==
    IF str = <<>> THEN 0
    ELSE IF str[1] = "-" THEN 0 - toNumber(Tail(str))
    ELSE 10 * toNumber(SubSeq(str, 1, Len(str) - 1)) + DigitValue(str[Len(str)])

\* "" + n
RECURSIVE numberToString(_)
numberToString(n) ==
    IF n < 0 THEN <<"-">> \o numberToString(0 - n)
    ELSE IF n < 10 THEN <<Digits[n + 1]>>
    ELSE numberToString(n \div 10) \o <<Digits[(n % 10) + 1]>>

NoForeach == [variable |-> <<>>, values |-> <<>>, found |-> FALSE]

\* VariableResolver.extractForeach
extractForeach(element, unrollLoop) ==
    IF element.tagName = "foreach" /\ "variable" \in DOMAIN element.attribs
    THEN LET attribs == element.attribs
             start == IF "start" \in DOMAIN attribs THEN attribs.start ELSE <<"0">>
         IN [variable |-> IF startsWith(attribs.variable, <<"$">>)
                          THEN Tail(attribs.variable) ELSE attribs.variable,
             values |->
                 IF "in" \in DOMAIN attribs
                 THEN IF unrollLoop THEN split(attribs["in"], {",", " ", "+"})
                      ELSE <<<<"@foreach:([">>
                               \o join(split(attribs["in"], {",", " ", "+"}), <<",">>)
                               \o <<"]", ")">> >>
                 ELSE IF "count" \notin DOMAIN attribs THEN <<>>
                 ELSE IF /\ unrollLoop
                         /\ isNumeric(start)
                         /\ isNumeric(attribs.count)
                         /\ toNumber(attribs.count) <= kMaxUnrolledCount
                 THEN [i \in 1..toNumber(attribs.count) |->
                           numberToString(toNumber(start) + (i - 1))]
                 ELSE <<<<"@foreach:(">> \o start \o <<",">> \o attribs.count \o <<")">> >>,
             found |-> TRUE]
    ELSE NoForeach

\* for (let a in element.attribs): the attribute names, one after the other
RECURSIVE AttributeNames(_)
AttributeNames(names) ==
    IF names = {} THEN <<>>
    ELSE LET a == CHOOSE name \in names : TRUE
         IN <<a>> \o AttributeNames(names \ {a})

\* the DefineInfos one <define> adds: one per attribute whose name is new
\* (the attribute names of a <define> are single characters here)
DefinesOf(element, defines) ==
    LET names == AttributeNames({a \in DOMAIN element.attribs :
                                    \A k \in 1..Len(defines) : defines[k].name # <<a>>})
    IN [k \in 1..Len(names) |->
           [name |-> <<names[k]>>, values |-> <<element.attribs[names[k]]>>]]

\* VariableResolver.findFormName, from the k-th element of the chain upwards:
\* the name of the enclosing Form and the defines met on the way
RECURSIVE findFormName(_, _, _)
findFormName(elements, k, defines) ==
    IF k > Len(elements) THEN [formName |-> <<>>, defines |-> defines]
    ELSE Bind(extractForeach(elements[k], TRUE), LAMBDA foreach :
            LET element == elements[k]
            IN IF element.tagName = "Form"
               THEN [formName |-> IF "name" \in DOMAIN element.attribs
                                  THEN element.attribs.name ELSE <<>>,
                     defines |-> defines]
               ELSE IF element.tagName = "define"
               THEN findFormName(elements, k + 1, defines \o DefinesOf(element, defines))
               ELSE IF /\ element.tagName = "foreach"
                       /\ foreach.found
                       /\ \A d \in 1..Len(defines) : defines[d].name # foreach.variable
               THEN findFormName(elements, k + 1,
                        Append(defines, [name |-> foreach.variable,
                                         values |-> foreach.values]))
               ELSE findFormName(elements, k + 1, defines))

\* resolves.sort ((a, b) => b.name.length - a.name.length): names of length n first
RECURSIVE SortLongestFirst(_, _)
SortLongestFirst(defines, n) ==
    IF n = 0 THEN <<>>
    ELSE SelectSeq(defines, LAMBDA d : Len(d.name) = n) \o SortLongestFirst(defines, n - 1)

\* the DefineInfos getDefines hands to its callback first; no form of the
\* chain is instantiated by another form, so the next call receives none
getDefines(elements) ==
    Bind(findFormName(elements, 1, <<>>).defines, LAMBDA defines :
        LET longest == IF defines = <<>> THEN 0
                       ELSE CHOOSE n \in {Len(defines[k].name) : k \in 1..Len(defines)} :
                                \A k \in 1..Len(defines) : Len(defines[k].name) <= n
        IN SortLongestFirst(defines, longest))

RECURSIVE Flatten(_)
Flatten(seqs) == IF seqs = <<>> THEN <<>> ELSE seqs[1] \o Flatten(Tail(seqs))

\* VariableResolver.findMatchingVariableSubstitutions (.substitutions)
findMatchingVariableSubstitutions(elements, part) ==
    Bind(SelectSeq(getDefines(elements), LAMBDA d : startsWith(part, d.name)), LAMBDA infos :
        LET substitutions ==
                Flatten([k \in 1..Len(infos) |->
                    [v \in 1..Len(infos[k].values) |->
                        [postfix |-> substring(part, Len(infos[k].name)),
                         value |-> infos[k].values[v]]]])
            minPostfixLength ==
                IF infos = <<>> THEN -1
                ELSE CHOOSE n \in {Len(part) - Len(infos[k].name) : k \in 1..Len(infos)} :
                         \A k \in 1..Len(infos) : n <= Len(part) - Len(infos[k].name)
        IN SelectSeq(substitutions, LAMBDA sub : Len(sub.postfix) <= minPostfixLength))

\* the elements of a sequence, each once, in the order of their first occurrence
Unique(seq) ==
    LET firsts == {k \in 1..Len(seq) : \A j \in 1..(k - 1) : seq[j] # seq[k]}
    IN [i \in 1..Cardinality(firsts) |->
           seq[CHOOSE k \in firsts : Cardinality({j \in firsts : j <= k}) = i]]

\* VariableResolver.resolveVariablePart, for a part that names no theme metric
resolveVariablePart(elements, part) ==
    Unique(SelectSeq(findMatchingVariableSubstitutions(elements, part),
        LAMBDA sub :
            ~(/\ indexOf(sub.value, {"$"}) > -1
              /\ startsWith(part, substring(sub.value, indexOf(sub.value, {"$"}) + 1)))))

toStringsFirstOnly(tokens, resolutions) ==
    IF resolutions = <<>> THEN <<Flatten(tokens)>>
    ELSE <<Flatten([k \in 1..Len(tokens) |->
                       IF tokens[k] = <<"$">> THEN resolutions[1] ELSE tokens[k]])>>

\* VariableResolutionResult.toStrings for result tokens of which only the
\* last but postfix is a variable, with the values it resolves to
toStrings(tokens, resolutions) ==
    IF resolutions = <<>> THEN <<Flatten(tokens)>>
    ELSE Unique([row \in 1..Len(resolutions) |->
                    Flatten([k \in 1..Len(tokens) |->
                                IF tokens[k] = <<"$">> THEN resolutions[row]
                                ELSE tokens[k]])])

\* VariableResolver.resolveVariable for a string with at most one "$" whose
\* substitutions hold no "$" themselves
resolveVariable(elements, str) ==
    IF indexOf(str, {"$"}) = -1 THEN <<str>>
    ELSE LET staticPart == SubSeq(str, 1, indexOf(str, {"$"}))
             part == split(substring(str, Len(staticPart) + 1), {"$"})[1]
         IN Bind(resolveVariablePart(elements, part), LAMBDA partResults :
                IF partResults = <<>> THEN toStrings(<<staticPart, <<"$">> \o part>>, <<>>)
                ELSE toStrings(<<staticPart, <<"$">>, partResults[1].postfix>>,
                               [k \in 1..Len(partResults) |-> partResults[k].value]))

NotResolved == [strings |-> <<>>, defines |-> <<>>, done |-> FALSE]

\* the attribute values a <foreach> can carry
StartValues == {<<"1">>, <<"-", "1">>, <<"x">>}
CountValues == {<<"3">>, <<"0">>, <<"1", "0", "0">>, <<"1", "0", "1">>, <<"x">>}

Foreach(name, start, count) ==
    [tagName |-> "foreach", attribs |-> [variable |-> name, start |-> start, count |-> count]]

Foreaches ==
    {Foreach(name, start, count) :
        name \in {<<"$", "i">>, <<"i">>}, start \in StartValues, count \in CountValues}

\* the elements written inside the <foreach>
ChildElements ==
    { [tagName |-> "View", attribs |-> [name |-> <<"R", "o", "w", "_", "$", "i">>]],
      [tagName |-> "define", attribs |-> [j |-> <<"7">>]],
      [tagName |-> "define", attribs |-> [i |-> <<"7">>]],
      [tagName |-> "Form", attribs |-> [name |-> <<"F">>]],
      Foreach(<<"$", "i">>, <<"5">>, <<"2">>) }

\* the elements around the <foreach>
ParentElements ==
    { [tagName |-> "Form", attribs |-> [name |-> <<"F">>]],
      [tagName |-> "define", attribs |-> [i |-> <<"9">>]],
      [tagName |-> "foreach", attribs |-> [variable |-> <<"$", "j">>, in |-> <<"a", ",", "b">>]] }

\* the strings resolved
VariableStrings ==
    { <<"R", "o", "w", "_", "$", "i">>, <<"$", "i">>, <<"$", "i", "z">>, <<"$", "j">>,
      <<"R">> }

\* resolveVariable (url, element, variable), with the defines in scope
ResolveVariable ==
    /\ ~resolved.done
    /\ resolved' = [strings |-> resolveVariable(elementChain, variable),
                    defines |-> getDefines(elementChain), done |-> TRUE]
    /\ UNCHANGED <<elementChain, variable>>
    /\ UNCHANGED <<serverVars, indexVars, parserVars, checkerVars, classModelVars>>
    /\ UNCHANGED furtherVars

----------------------------------------------------------------------------
(* The expression parser (skinexpressionparser.ts).  A value is a number    *)
(* (a fraction n/d, or NaN), a string, a boolean or null; a parser is the   *)
(* rest of the expression, the error and the operations done so far.        *)

\* the longest expression tried, and the digits printed after a decimal point
MaxExprLen == 3
MaxFractionDigits == 17

RECURSIVE GCD(_, _)
GCD(a, b) == IF b = 0 THEN a ELSE GCD(b, a % b)

Abs(n) == IF n < 0 THEN 0 - n ELSE n

Null == [type |-> "null", n |-> 0, d |-> 1, str |-> <<>>, b |-> FALSE]
NaN == [type |-> "NaN", n |-> 0, d |-> 1, str |-> <<>>, b |-> FALSE]
Diverges == [type |-> "diverges", n |-> 0, d |-> 1, str |-> <<>>, b |-> FALSE]
Str(s) == [type |-> "string", n |-> 0, d |-> 1, str |-> s, b |-> FALSE]
Bool(b) == [type |-> "boolean", n |-> 0, d |-> 1, str |-> <<>>, b |-> b]
Thrown(message) == [type |-> "thrown", n |-> 0, d |-> 1, str |-> message, b |-> FALSE]

\* the number n/d, in lowest terms
Num(n, d) ==
    LET g == GCD(Abs(n), Abs(d))
        s == IF d < 0 THEN -1 ELSE 1
    IN [type |-> "number", n |-> s * (n \div g), d |-> s * (d \div g), str |-> <<>>,
        b |-> FALSE]

IsNumber(v) == v.type \in {"number", "NaN"}

IsZero(v) == v.type = "number" /\ v.n = 0

\* the characters of the expressions, in the order of their character codes
CharOrder ==
    <<" ", "!", "$", "%", "&", "'", "(", ")", "*", "+", ",", "-", ".", "/",
      "0", "1", "2", "3", "4", "5", "6", "7", "8", "9", "<", "=", ">", "N",
      "a", "b", "e", "f", "l", "r", "s", "t", "u">>

CharCode(c) == CHOOSE k \in 1..Len(CharOrder) : CharOrder[k] = c

\* String.trim
RECURSIVE trim(_)
trim(str) ==
    IF str = <<>> THEN str
    ELSE IF str[1] = " " THEN trim(Tail(str))
    ELSE IF str[Len(str)] = " " THEN trim(SubSeq(str, 1, Len(str) - 1))
    ELSE str

\* the unary + of a string
toNumberJS(str) ==
    IF trim(str) = <<>> THEN Num(0, 1)
    ELSE IF isNumeric(trim(str)) THEN Num(toNumber(trim(str)), 1)
    ELSE NaN

\* the digits after the decimal point of rem/d, for 0 < rem < d
RECURSIVE FractionDigits(_, _, _)
FractionDigits(rem, d, k) ==
    IF rem = 0 \/ k = 0 THEN <<>>
    ELSE <<Digits[((rem * 10) \div d) + 1]>> \o FractionDigits((rem * 10) % d, d, k - 1)

\* String (v) of a value
toString(v) ==
    IF v.type = "string" THEN v.str
    ELSE IF v.type = "boolean"
    THEN IF v.b THEN <<"t", "r", "u", "e">> ELSE <<"f", "a", "l", "s", "e">>
    ELSE IF v.type = "NaN" THEN <<"N", "a", "N">>
    ELSE IF v.type = "null" THEN <<>>
    ELSE IF v.d = 1 THEN numberToString(v.n)
    ELSE (IF v.n < 0 THEN <<"-">> ELSE <<>>) \o numberToString(Abs(v.n) \div v.d)
             \o <<".">> \o FractionDigits(Abs(v.n) % v.d, v.d, MaxFractionDigits)

\* ToNumber of a value
ToNumeric(v) ==
    IF v.type = "string" THEN toNumberJS(v.str)
    ELSE IF v.type = "boolean" THEN Num(IF v.b THEN 1 ELSE 0, 1)
    ELSE v

\* v1 < v2 of two strings
RECURSIVE StringLess(_, _)
StringLess(s1, s2) ==
    IF s2 = <<>> THEN FALSE
    ELSE IF s1 = <<>> THEN TRUE
    ELSE IF s1[1] = s2[1] THEN StringLess(Tail(s1), Tail(s2))
    ELSE CharCode(s1[1]) < CharCode(s2[1])

\* v1 < v2
Less(v1, v2) ==
    IF v1.type = "string" /\ v2.type = "string" THEN StringLess(v1.str, v2.str)
    ELSE LET a == ToNumeric(v1)
             b == ToNumeric(v2)
         IN a.type = "number" /\ b.type = "number" /\ a.n * b.d < b.n * a.d

\* v1 == v2
LooseEqual(v1, v2) ==
    IF v1.type = "string" /\ v2.type = "string" THEN v1.str = v2.str
    ELSE LET a == ToNumeric(v1)
             b == ToNumeric(v2)
         IN a.type = "number" /\ b.type = "number" /\ a = b

\* a value in a condition
Truthy(v) ==
    \/ v.type = "boolean" /\ v.b
    \/ v.type = "number" /\ v.n # 0
    \/ v.type = "string" /\ v.str # <<>>

Plus(v1, v2, sign) ==
    IF v1.type = "NaN" \/ v2.type = "NaN" THEN NaN
    ELSE Num(v1.n * v2.d + sign * v2.n * v1.d, v1.d * v2.d)

Times(v1, v2) ==
    IF v1.type = "NaN" \/ v2.type = "NaN" THEN NaN ELSE Num(v1.n * v2.n, v1.d * v2.d)

divideUnchecked(v1, v2) == NaN

\* DivideHelper.divide
divide(v1, v2) ==
    IF IsZero(v2) THEN Thrown("Cannot divide by 0.")
    ELSE IF v1.type = "NaN" \/ v2.type = "NaN" THEN NaN
    ELSE Num(v1.n * v2.d, v1.d * v2.n)

\* DivideHelper.modulo; v1 % v2 has the sign of v1
modulo(v1, v2) ==
    IF IsZero(v2) THEN Thrown("Cannot modulo by 0.")
    ELSE IF v1.type = "NaN" \/ v2.type = "NaN" THEN NaN
    ELSE LET a == Abs(v1.n) * v2.d
             b == Abs(v2.n) * v1.d
             sign == IF v1.n < 0 THEN -1 ELSE 1
         IN Num(sign * (a % b), v1.d * v2.d)

\* the parser after construction
NewParser(expr) == [v |-> Null, e |-> expr, err |-> "", ops |-> <<>>]

\* this.expression = this.expression.substring (n)
Consume(p, n) == [p EXCEPT !.e = SubSeq(@, n + 1, Len(@))]

\* SkinExpressionParser.skipWhite
skipWhite(p) == [p EXCEPT !.e = trim(@)]

\* a read that returned null, or a loop that never ends
Stops(v) == v.type \in {"null", "diverges"}

\* the length of the match of numberRegex, for expressions without "."
NumberLength(expr) ==
    LET from == IF expr # <<>> /\ expr[1] = "-" THEN 2 ELSE 1
        others == {k \in from..Len(expr) : ~IsDigit(expr[k])}
        to == IF others = {} THEN Len(expr)
              ELSE (CHOOSE k \in others : \A j \in others : k <= j) - 1
    IN IF to >= from THEN to ELSE 0

\* SkinExpressionParser.readStringLiteral: the literal is not consumed
readStringLiteral(expr) ==
    LET quotes == {k \in 2..Len(expr) : expr[k] = "'"}
        i == IF quotes = {} THEN Len(expr) + 1
             ELSE CHOOSE k \in quotes : \A j \in quotes : k <= j
    IN SubSeq(expr, 2, i - 1)

\* string operands of + - * / % become numbers
Coerce(v) == IF v.type = "string" THEN toNumberJS(v.str) ELSE v

RECURSIVE readExpression(_)
RECURSIVE readBoolExpression(_)
RECURSIVE BoolLoop(_, _)
RECURSIVE readRelation(_)
RECURSIVE RelationLoop(_)
RECURSIVE readSum(_)
RECURSIVE SumLoop(_)
RECURSIVE readProduct(_)
RECURSIVE ProductLoop(_)
RECURSIVE readFactor(_)

\* SkinExpressionParser.readFactor (with readConstant and readNumber)
readFactor(p0) ==
    LET p == skipWhite(p0)
    IN IF startsWith(p.e, <<"!">>)
       THEN Bind(readFactor(Consume(p, 1)), LAMBDA r :
                IF r.v.type = "boolean" THEN [r EXCEPT !.v = Bool(~r.v.b)] ELSE r)
       ELSE IF NumberLength(p.e) > 0
       THEN [Consume(p, NumberLength(p.e)) EXCEPT
                !.v = Num(toNumber(SubSeq(p.e, 1, NumberLength(p.e))), 1)]
       ELSE IF startsWith(p.e, <<"'">>)
       THEN [p EXCEPT !.v = Str(readStringLiteral(p.e))]
       ELSE IF startsWith(p.e, <<"(">>)
       THEN Bind(readExpression(Consume(p, 1)), LAMBDA r :
                IF Stops(r.v) THEN r
                ELSE IF startsWith(skipWhite(r).e, <<")">>) THEN Consume(skipWhite(r), 1)
                ELSE [skipWhite(r) EXCEPT !.v = Null])
       ELSE [p EXCEPT !.v = Null]

\* the while loop of readProduct; p.v is v1
ProductLoop(p) ==
    Bind(readFactor(Consume(p, 1)), LAMBDA r :
        LET op == IF startsWith(p.e, <<"*">>) THEN "kMultiply"
                  ELSE IF startsWith(p.e, <<"/">>) THEN "kDivide"
                  ELSE IF startsWith(p.e, <<"%">>) THEN "kModulo"
                  ELSE "kError"
            v1 == Coerce(p.v)
            v2 == Coerce(r.v)
            result == IF op = "kMultiply" THEN Times(v1, v2)
                      ELSE IF op = "kDivide" THEN divide(v1, v2)
                      ELSE modulo(v1, v2)
            after == [r EXCEPT !.v = IF result.type = "thrown" THEN Num(0, 1) ELSE result,
                               !.err = IF result.type = "thrown" THEN result.str ELSE @]
        IN IF op = "kError" THEN p
           ELSE IF Stops(r.v) THEN r
           ELSE IF v1.type = "boolean" \/ v2.type = "boolean"
           THEN [r EXCEPT !.v = Null, !.err = "Cannot multiply or divide boolean values."]
           ELSE ProductLoop(skipWhite([after EXCEPT
                    !.ops = Append(@, [op |-> op, v1 |-> v1, v2 |-> v2, value |-> after.v,
                                       error |-> after.err])])))

\* SkinExpressionParser.readProduct
readProduct(p) ==
    Bind(readFactor(p), LAMBDA r : IF Stops(r.v) THEN r ELSE ProductLoop(skipWhite(r)))

\* the while loop of readSum; p.v is v1
SumLoop(p) ==
    Bind(readProduct(Consume(p, 1)), LAMBDA r :
        LET plus == startsWith(p.e, <<"+">>)
            v1 == Coerce(p.v)
            v2 == Coerce(r.v)
        IN IF ~plus /\ ~startsWith(p.e, <<"-">>) THEN p
           ELSE IF Stops(r.v) THEN r
           ELSE IF v1.type = "boolean" \/ v2.type = "boolean"
           THEN [r EXCEPT !.v = Null, !.err = "Cannot add or subtract boolean values."]
           ELSE SumLoop(skipWhite([r EXCEPT !.v = Plus(v1, v2, IF plus THEN 1 ELSE -1)])))

\* SkinExpressionParser.readSum
readSum(p) ==
    Bind(readProduct(p), LAMBDA r : IF Stops(r.v) THEN r ELSE SumLoop(skipWhite(r)))

\* the while loop of readRelation, with readRelationalOperator; p.v is v1
RelationLoop(p) ==
    LET equals == Len(p.e) >= 2 /\ p.e[2] = "="
        op == IF startsWith(p.e, <<"<">>)
              THEN IF equals THEN "kLessOrEqual" ELSE "kLess"
              ELSE IF startsWith(p.e, <<">">>)
              THEN IF equals THEN "kGreaterOrEqual" ELSE "kGreater"
              ELSE IF startsWith(p.e, <<"=">>) THEN "kEqual"
              ELSE "kError"
    IN Bind(readSum(Consume(p, IF op \in {"kLessOrEqual", "kGreaterOrEqual"} THEN 2 ELSE 1)),
            LAMBDA r :
        LET v1 == p.v
            v2 == r.v
            result == IF op = "kLess" THEN Less(v1, v2)
                      ELSE IF op = "kLessOrEqual" THEN Less(v1, v2) \/ LooseEqual(v1, v2)
                      ELSE IF op = "kGreater" THEN Less(v2, v1)
                      ELSE IF op = "kGreaterOrEqual" THEN Less(v2, v1) \/ LooseEqual(v1, v2)
                      ELSE LooseEqual(v1, v2)
        IN IF op = "kError" THEN p
           ELSE IF Stops(r.v) THEN r
           ELSE RelationLoop(skipWhite([r EXCEPT !.v = Bool(result)])))

\* SkinExpressionParser.readRelation
readRelation(p) ==
    Bind(readSum(p), LAMBDA r : IF Stops(r.v) THEN r ELSE RelationLoop(skipWhite(r)))

\* the while loop of readBoolExpression: op is read once, before the loop;
\* a pass that consumes nothing is repeated for ever
BoolLoop(op, p) ==
    Bind(readRelation(p), LAMBDA r :
        LET v1 == IF op = "kAnd"
                  THEN IF Truthy(p.v) THEN r.v ELSE p.v
                  ELSE IF Truthy(p.v) THEN p.v ELSE r.v
            after == skipWhite([r EXCEPT !.v = v1])
        IN IF Stops(r.v) THEN r
           ELSE IF after.e = p.e THEN [after EXCEPT !.v = Diverges]
           ELSE BoolLoop(op, after))

\* SkinExpressionParser.readBoolExpression (with readBoolOperator)
readBoolExpression(p) ==
    Bind(readRelation(p), LAMBDA r :
        LET q == skipWhite(r)
        IN IF Stops(r.v) THEN r
           ELSE IF startsWith(q.e, <<"&">>) THEN BoolLoop("kAnd", Consume(q, 1))
           ELSE IF startsWith(q.e, <<"|">>) THEN BoolLoop("kOr", Consume(q, 1))
           ELSE q)

\* SkinExpressionParser.readExpression
readExpression(p) ==
    Bind(readBoolExpression(p), LAMBDA r :
        IF r.v.type = "diverges" \/ r.e = <<>> THEN r
        ELSE [r EXCEPT !.v = Str(toString(r.v) \o r.e)])

NotEvaluated == [value |-> Null, error |-> "", ops |-> <<>>, done |-> FALSE]

\* SkinExpressionParser.evaluate
evaluate(expr) ==
    IF indexOf(expr, {"$"}) > -1
    THEN [value |-> Str(expr), error |-> "Cannot evaluate unresolved variable.",
          ops |-> <<>>, done |-> TRUE]
    ELSE Bind(readExpression(NewParser(expr)), LAMBDA r :
             [value |-> r.v, error |-> r.err, ops |-> r.ops, done |-> TRUE])

\* the characters expressions are made of
ExprChars == {"0", "1", "2", "/", "%", "*", "+", "-", "(", ")", "'", "a", "&", ">", "!", " "}

RECURSIVE StringsOver(_, _)
StringsOver(chars, n) ==
    IF n = 0 THEN {<<>>}
    ELSE LET shorter == StringsOver(chars, n - 1)
         IN shorter \cup {Append(s, c) : s \in {t \in shorter : Len(t) = n - 1}, c \in chars}

\* (2+3)*4 > 19 & 1
BoolExample ==
    <<"(", "2", "+", "3", ")", "*", "4", " ", ">", " ", "1", "9", " ", "&", " ", "1">>

\* 'a'+'b'
StringSumExample == <<"'", "a", "'", "+", "'", "b", "'">>

\* 1/0
DivideByZeroExample == <<"1", "/", "0">>

Expressions ==
    StringsOver(ExprChars, MaxExprLen)
        \cup {BoolExample, StringSumExample, DivideByZeroExample, <<"$", "a">>}

\* SkinExpressionParser.evaluate (expression)
Evaluate ==
    /\ ~evaluated.done
    /\ evaluated' = evaluate(expression)
    /\ UNCHANGED expression
    /\ UNCHANGED <<serverVars, indexVars, resolverVars, checkerVars, classModelVars>>
    /\ UNCHANGED furtherVars

----------------------------------------------------------------------------
(* The attribute checks of the document checker (skindocumentchecker.ts).   *)
(* "@eval:", "@select:" and "@property:" are written as one character.      *)

Contains(str, c) == indexOf(str, {c}) > -1

\* String.toLowerCase
toLowerCase(str) == [k \in 1..Len(str) |-> IF str[k] = "T" THEN "t" ELSE str[k]]

Diagnostic(severity, message, value) ==
    [severity |-> severity, message |-> message, value |-> value]

\* IntelliSenseProvider.splitExpression for a value without "(" after the keyword
splitExpression(value, keyword) ==
    IF ~Contains(value, keyword)
    THEN [prefix |-> value, expression |-> <<>>, postfix |-> <<>>]
    ELSE [prefix |-> SubSeq(value, 1, indexOf(value, {keyword})),
          expression |-> substring(value, indexOf(value, {keyword}) + 1),
          postfix |-> <<>>]

\* IntelliSenseProvider.evaluateExpression for a value that starts with its
\* keyword: the result and the errors of the evaluation
evaluateExpression(value) ==
    Bind(splitExpression(value, "@eval:"), LAMBDA eval :
    Bind(evaluate(eval.expression), LAMBDA result :
        LET evaluable == ~(\E k \in 1..Len(eval.expression) :
                              eval.expression[k] \in {"@eval:", "@select:", "@property:", "$"})
            evaluatedValue == IF eval.expression = <<>> THEN eval.prefix
                              ELSE IF ~evaluable THEN value
                              ELSE IF result.value.type = "null" THEN <<>>
                              ELSE toString(result.value)
            errors == IF eval.expression # <<>> /\ evaluable /\ result.error # ""
                      THEN <<result.error>> ELSE <<>>
        IN Bind(splitExpression(evaluatedValue, "@select:"), LAMBDA select :
           Bind(split(select.expression, {":"}), LAMBDA parts :
               LET options == split(parts[2], {","})
                   index == toNumberJS(parts[1])
               IN [result |-> IF select.expression = <<>> THEN select.prefix
                              ELSE IF Len(parts) # 2 THEN select.expression
                              ELSE IF index.type = "number" /\ index.d = 1
                                      /\ index.n + 1 \in 1..Len(options)
                              THEN options[index.n + 1]
                              ELSE <<"undefined">>,
                   errors |-> errors]))))

\* new RegExp ("^" + intRegex + "$").test (value), for a value without @property:
IsInteger(value) == isNumeric(value)

\* new RegExp ("^" + floatRegex + "$").test (value), for a value without @property:
IsFloat(value) ==
    LET parts == split(value, {"."})
    IN /\ Len(parts) <= 2
       /\ isNumeric(parts[1])
       /\ Len(parts) = 2 =>
             parts[2] # <<>> /\ \A k \in 1..Len(parts[2]) : IsDigit(parts[2][k])

\* SkinDocumentChecker.checkBoolean
checkBoolean(value) ==
    IF toLowerCase(value) \notin {<<"t", "r", "u", "e">>, <<"f", "a", "l", "s", "e">>}
    THEN <<Diagnostic("Error", "is not a boolean value.", value)>>
    ELSE <<>>

\* SkinDocumentChecker.checkInteger
checkInteger(value) ==
    IF IsInteger(value) THEN <<>>
    ELSE IF IsInteger(trim(value)) THEN <<Diagnostic("Warning", "contains spaces.", value)>>
    ELSE <<Diagnostic("Error", "is not an integer value.", value)>>

\* SkinDocumentChecker.checkFloat for a type without kFontSize and kDuration
checkFloat(value) ==
    IF IsFloat(value) THEN <<>>
    ELSE IF IsFloat(trim(value)) THEN <<Diagnostic("Warning", "contains spaces.", value)>>
    ELSE <<Diagnostic("Error", "is not a float value.", value)>>

\* SkinDocumentChecker.checkStringLiteral
checkStringLiteral(value, str) ==
    IF value # str THEN <<Diagnostic("Error", "does not match.", value)>> ELSE <<>>

\* the checks checkAttributeType runs for a type, in its order: one per bit
\* of AttributeType that is set (the bits of the model: kBool, kInt, kFloat,
\* kString, kStrForever and kStrNone; kString has no check)
ChecksFor(value, attributeType) ==
    (IF "kBool" \in attributeType
     THEN <<[check |-> "checkBoolean", result |-> checkBoolean(value)]>> ELSE <<>>)
    \o (IF "kInt" \in attributeType
        THEN <<[check |-> "checkInteger", result |-> checkInteger(value)]>> ELSE <<>>)
    \o (IF "kFloat" \in attributeType
        THEN <<[check |-> "checkFloat", result |-> checkFloat(value)]>> ELSE <<>>)
    \o (IF "kStrForever" \in attributeType
        THEN <<[check |-> "checkStringLiteral",
                result |-> checkStringLiteral(value, <<"f", "o", "r", "e", "v", "e", "r">>)]>>
        ELSE <<>>)
    \o (IF "kStrNone" \in attributeType
        THEN <<[check |-> "checkStringLiteral",
                result |-> checkStringLiteral(value, <<"n", "o", "n", "e">>)]>>
        ELSE <<>>)

checkAttributeTypeReportingAll(value, attributeType) ==
    LET performed == ChecksFor(value, attributeType)
    IN [called |-> TRUE, value |-> value, performed |-> performed,
        diagnostics |-> Flatten([k \in 1..Len(performed) |-> performed[k].result])]

\* SkinDocumentChecker.checkAttributeType: the checks performed and the
\* diagnostics added
checkAttributeType(value, attributeType) ==
    LET performed == IF Contains(value, "@property:") THEN <<>>
                     ELSE ChecksFor(value, attributeType)
        failed == SelectSeq(performed, LAMBDA c : c.result # <<>>)
    IN [called |-> TRUE, value |-> value, performed |-> performed,
        diagnostics |-> IF Len(failed) = Len(performed) /\ failed # <<>>
                        THEN failed[1].result ELSE <<>>]

NoTypeCheck == [called |-> FALSE, value |-> <<>>, performed |-> <<>>, diagnostics |-> <<>>]

\* SkinDocumentChecker.checkAttributeValue for a value without "$" and
\* "@foreach:" on an element other than <if> and <switch>: the diagnostics of
\* the value and the type check made
checkAttributeValue(tag, attributeType) ==
    Bind(evaluateExpression(tag.attributeValue), LAMBDA evaluation :
        LET attributeValue == tag.attributeValue
            isExpression == Contains(attributeValue, "@eval:")
                                \/ Contains(attributeValue, "@select:")
            own == IF isExpression
                   THEN [k \in 1..Len(evaluation.errors) |->
                            Diagnostic("Error", evaluation.errors[k], attributeValue)]
                   ELSE IF tag.name # "define"
                   THEN Flatten([k \in 1..3 |->
                            LET val == <<"@eval:", "@property:", "@select:">>[k]
                            IN IF Contains(attributeValue, val)
                               THEN <<Diagnostic("Error",
                                         "is only allowed in attribute values of the <define> element.",
                                         attributeValue)>>
                               ELSE <<>>])
                   ELSE <<>>
            hint == IF /\ tag.name \in {"foreach", "styleselector"}
                       /\ tag.attributeName = "variable"
                       /\ ~startsWith(attributeValue, <<"$">>)
                    THEN <<Diagnostic("Warning", "This variable should always start with a '$'.",
                                      attributeValue)>>
                    ELSE <<>>
        IN Bind(checkAttributeType(IF isExpression THEN evaluation.result ELSE attributeValue,
                                   attributeType),
                LAMBDA typeCheck :
               IF /\ attributeValue = <<>>
                  /\ (attributeType # {"kString"} \/ tag.attributeName = "name")
               THEN [diagnostics |-> <<Diagnostic("Warning", "has no value. Consider removing it.",
                                                  attributeValue)>>,
                     typeCheck |-> NoTypeCheck, done |-> TRUE]
               ELSE [diagnostics |-> own \o hint \o typeCheck.diagnostics,
                     typeCheck |-> typeCheck, done |-> TRUE]))

NotChecked == [diagnostics |-> <<>>, typeCheck |-> NoTypeCheck, done |-> FALSE]

\* the attributes the class model knows of an element
ValidAttributes(tagName) ==
    IF tagName = "View" THEN {"width"}
    ELSE IF tagName = "foreach" THEN {"variable", "count"}
    ELSE {}

\* SkinDocumentChecker.checkAttributes for an element with one attribute,
\* written once and in the case of the class model
checkAttributes(tag, attributeType) ==
    IF tag.name = "define" THEN [NotChecked EXCEPT !.done = TRUE]
    ELSE IF tag.attributeName \notin ValidAttributes(tag.name)
    THEN [NotChecked EXCEPT !.done = TRUE,
             !.diagnostics = <<Diagnostic("Error", "is an invalid attribute.", <<>>)>>]
    ELSE IF tag.name # "foreach" \/ tag.attributeName # "count"
    THEN checkAttributeValue(tag, attributeType)
    ELSE [NotChecked EXCEPT !.done = TRUE]

\* the attribute values checked
AttributeValues ==
    { <<>>, <<"1">>, <<"1", ".", "5">>, <<" ", "1">>, <<"x">>,
      <<"T", "r", "u", "e">>, <<"n", "o", "n", "e">>, <<"f", "o", "r", "e", "v", "e", "r">>,
      <<"@property:", "p">>,
      <<"@eval:", "1", "+", "1">>, <<"@eval:", "1", "/", "0">>,
      <<"@select:", "0", ":", "1", ",", "x">> }

\* the elements checked: the name of the element and its attribute
Tags ==
    {[name |-> n, attributeName |-> a, attributeValue |-> v] :
        n \in {"View", "define", "foreach"}, a \in {"width", "variable", "count", "bogus"},
        v \in AttributeValues}

\* the bits of AttributeType an attribute of the class model can have
TypeBits == {"kBool", "kInt", "kFloat", "kString", "kStrForever", "kStrNone"}

\* checkAttributes (diagnostics, textDocument, child)
CheckAttributes ==
    /\ ~checked.done
    /\ checked' = checkAttributes(checkedTag, checkedType)
    /\ UNCHANGED <<checkedTag, checkedType>>
    /\ UNCHANGED <<serverVars, indexVars, resolverVars, parserVars, classModelVars>>
    /\ UNCHANGED furtherVars

----------------------------------------------------------------------------
(* The specifications *)

----------------------------------------------------------------------------
(* The class models: ClassModelManager of classmodelmanager.ts *)

MaxModelTime == 2

ModelPaths == {"p1", "p2"}

\* the texts of model files: "a" has a class View and the DefaultColors
\* enumeration, "b" has the classes View and Form and no DefaultColors
ModelTexts == {"a", "b"}

ModelFile(text, mtime) == [exists |-> TRUE, mtime |-> mtime, text |-> text]

NoFile == [exists |-> FALSE, mtime |-> 0, text |-> ""]

NoPath == "null"

NoModel == "null"

NewClassModelManager ==
    [classModelPath |-> NoPath, classModelTimestamp |-> 0, classModel |-> NoModel,
     skinElementCache |-> {},
     styleModelPath |-> NoPath, styleModelTimestamp |-> 0, styleModel |-> NoModel,
     defaultColors |-> <<>>]

\* the <Model.Class> elements of a model with their members
ClassMembers(model) ==
    IF model = "a" THEN {<<"VIEW", "width">>}
    ELSE {<<"VIEW", "height">>, <<"FORM", "name">>}

\* cacheClasses keeps the entries of the cache and adds to them
cacheClasses(cache, model) == cache \cup ClassMembers(model)

HasDefaultColors(model) == model = "a"

DefaultColorsOf(model) == <<[name |-> "red", hexValue |-> "#FF0000"]>>

reset(manager) == [manager EXCEPT !.classModel = NoModel, !.skinElementCache = {}]

\* loadClassModel: the manager after the call, and whether the file was parsed
loadClassModel(manager, files, path) ==
    LET file == files[path]
        samePath == manager.classModelPath = path
        modified == file.exists /\ file.mtime > manager.classModelTimestamp
        isUpToDate == ~modified
        stamped == IF samePath /\ modified
                     THEN reset([manager EXCEPT !.classModelTimestamp = file.mtime])
                     ELSE manager
        named == [stamped EXCEPT !.classModelPath = path]
        read == IF file.exists THEN [named EXCEPT !.classModel = file.text] ELSE named
    IN  IF samePath /\ isUpToDate
          THEN [manager |-> manager, parsed |-> FALSE]
          ELSE [manager |-> IF read.classModel # NoModel
                              THEN [read EXCEPT !.skinElementCache =
                                                    cacheClasses(@, read.classModel)]
                              ELSE read,
                parsed |-> file.exists]

\* loadStyleModel: the manager after the call, and whether the file was parsed
loadStyleModel(manager, files, path) ==
    LET file == files[path]
        samePath == manager.styleModelPath = path
        modified == file.exists /\ file.mtime > manager.styleModelTimestamp
        isUpToDate == ~modified
        stamped == IF samePath /\ modified
                     THEN [manager EXCEPT !.styleModelTimestamp = file.mtime]
                     ELSE manager
        named == [stamped EXCEPT !.styleModelPath = path]
        read == IF file.exists THEN [named EXCEPT !.styleModel = file.text] ELSE named
    IN  IF samePath /\ isUpToDate
          THEN [manager |-> manager, parsed |-> FALSE]
          ELSE [manager |-> IF read.styleModel # NoModel /\ HasDefaultColors(read.styleModel)
                              THEN [read EXCEPT !.defaultColors =
                                                    DefaultColorsOf(read.styleModel)]
                              ELSE read,
                parsed |-> file.exists]

\* no load yet; classTime and styleTime are the modification time of the
\* file of the path (0 without a file) at the last call of loadClassModel
\* and of loadStyleModel
NoLoad == [op |-> "none", again |-> FALSE, changed |-> FALSE, parsed |-> FALSE,
           same |-> TRUE, classTime |-> 0, styleTime |-> 0]

LoadClassModel(path) ==
    LET result == loadClassModel(classModelManager, modelFiles, path)
    IN  /\ classModelManager' = result.manager
        /\ lastLoad' = [op |-> "loadClassModel",
                        again |-> classModelManager.classModelPath = path,
                        changed |-> lastLoad.classTime # modelFiles[path].mtime,
                        parsed |-> result.parsed,
                        same |-> result.manager = classModelManager,
                        classTime |-> modelFiles[path].mtime,
                        styleTime |-> lastLoad.styleTime]
        /\ UNCHANGED modelFiles
        /\ UNCHANGED <<latestSkinElementsPath, latestVisualStylesPath>>
    /\ UNCHANGED <<serverVars, indexVars, resolverVars, parserVars, checkerVars>>
    /\ UNCHANGED furtherVars

LoadStyleModel(path) ==
    LET result == loadStyleModel(classModelManager, modelFiles, path)
    IN  /\ classModelManager' = result.manager
        /\ lastLoad' = [op |-> "loadStyleModel",
                        again |-> classModelManager.styleModelPath = path,
                        changed |-> lastLoad.styleTime # modelFiles[path].mtime,
                        parsed |-> result.parsed,
                        same |-> result.manager = classModelManager,
                        classTime |-> lastLoad.classTime,
                        styleTime |-> modelFiles[path].mtime]
        /\ UNCHANGED modelFiles
        /\ UNCHANGED <<latestSkinElementsPath, latestVisualStylesPath>>
    /\ UNCHANGED <<serverVars, indexVars, resolverVars, parserVars, checkerVars>>
    /\ UNCHANGED furtherVars

\* loadClassModels of server.ts when the model paths of the document changed
ResetClassModel ==
    /\ classModelManager' = reset(classModelManager)
    /\ UNCHANGED <<modelFiles, lastLoad>>
    /\ UNCHANGED <<latestSkinElementsPath, latestVisualStylesPath>>
    /\ UNCHANGED <<serverVars, indexVars, resolverVars, parserVars, checkerVars>>
    /\ UNCHANGED furtherVars

\* the file is written again, later than before
WriteModelFile(path, text, mtime) ==
    /\ modelFiles[path].exists
    /\ modelFiles[path].mtime < mtime
    /\ modelFiles' = [modelFiles EXCEPT ![path] = ModelFile(text, mtime)]
    /\ UNCHANGED <<classModelManager, lastLoad>>
    /\ UNCHANGED <<latestSkinElementsPath, latestVisualStylesPath>>
    /\ UNCHANGED <<serverVars, indexVars, resolverVars, parserVars, checkerVars>>
    /\ UNCHANGED furtherVars

DeleteModelFile(path) ==
    /\ modelFiles[path].exists
    /\ modelFiles' = [modelFiles EXCEPT ![path] = NoFile]
    /\ UNCHANGED <<classModelManager, lastLoad>>
    /\ UNCHANGED <<latestSkinElementsPath, latestVisualStylesPath>>
    /\ UNCHANGED <<serverVars, indexVars, resolverVars, parserVars, checkerVars>>
    /\ UNCHANGED furtherVars

\* the paths of style model files; ModelPaths are the class model files
StylePaths == {"s1", "s2"}

\* the values of the settings skinElementsPath and visualStylesPath: the path
\* of a model file, or empty
SkinElementsSettings == ModelPaths \cup {""}

VisualStylesSettings == StylePaths \cup {""}

\* null of findClassModelPaths
NoModels == [skinElements |-> NoPath, visualStyles |-> NoPath]

\* findClassModelPaths: the repository root names one class model directory,
\* which holds the files "p1" and "s1"
findClassModelPaths(files) ==
    IF files["p1"].exists /\ files["s1"].exists
      THEN [skinElements |-> "p1", visualStyles |-> "s1"]
      ELSE NoModels

pathNeeded(files, path) == path = "" \/ ~files[path].exists

\* loadModels: the paths it loads from, or no paths when it returns before
modelPaths(files, skinElementsPath, visualStylesPath) ==
    LET skinElementsPathNeeded == pathNeeded(files, skinElementsPath)
        visualStylesPathNeeded == pathNeeded(files, visualStylesPath)
        models == findClassModelPaths(files)
    IN  IF skinElementsPathNeeded \/ visualStylesPathNeeded
          THEN IF models = NoModels
                 THEN NoModels
                 ELSE [skinElements |-> IF skinElementsPathNeeded
                                          THEN models.skinElements
                                          ELSE skinElementsPath,
                       visualStyles |-> IF visualStylesPathNeeded
                                          THEN models.visualStyles
                                          ELSE visualStylesPath]
          ELSE [skinElements |-> skinElementsPath, visualStyles |-> visualStylesPath]

\* loadModels of server.ts, called by every validation with the settings of
\* the document
LoadModels(skinElementsPath, visualStylesPath) ==
    LET paths == modelPaths(modelFiles, skinElementsPath, visualStylesPath)
        pathsChanged == \/ latestSkinElementsPath # paths.skinElements
                        \/ latestVisualStylesPath # paths.visualStyles
        cleared == IF pathsChanged THEN reset(classModelManager) ELSE classModelManager
        withClasses == loadClassModel(cleared, modelFiles, paths.skinElements).manager
    IN  /\ IF paths = NoModels
             THEN UNCHANGED <<classModelManager, latestSkinElementsPath,
                              latestVisualStylesPath>>
             ELSE /\ latestSkinElementsPath' = paths.skinElements
                  /\ latestVisualStylesPath' = paths.visualStyles
                  /\ classModelManager' =
                        loadStyleModel(withClasses, modelFiles, paths.visualStyles).manager
        /\ UNCHANGED <<modelFiles, lastLoad>>
        /\ UNCHANGED <<serverVars, indexVars, resolverVars, parserVars, checkerVars>>
        /\ UNCHANGED furtherVars

----------------------------------------------------------------------------
(* The files included by a file: SkinFileInfo.parseIncludes                 *)

MaxIncludes == 2

\* the depth of calls at which the call stack of the engine is used up
MaxCallDepth == 5

\* the urls an <Include> of the pack can name
PackUrls == {"b.xml", "c.xml", "d.xml"}

\* a file of the pack with the urls of its <Include> elements in document order
PackFile(urls) == [exists |-> TRUE, includes |-> urls]

NoPackFile == [exists |-> FALSE, includes |-> <<>>]

IncludeLists == UNION {[1..n -> PackUrls] : n \in 0..MaxIncludes}

\* a call of refreshDefinitions of the SkinFileInfo of url; next is the place
\* of parseIncludes in the list of includes, skinFiles the keys of the map
\* of included files of the SkinFileInfo
NewCall(url) == [url |-> url, next |-> 1, skinFiles |-> {}]

NoRefresh == [status |-> "idle", url |-> "", includedFiles |-> {}]

\* loadSkinFiles: new SkinFileInfo (root, url, namespace) and refreshDefinitions
\* for a file of the pack found on disk
RefreshDefinitions(url) ==
    /\ callStack = <<>>
    /\ packFiles[url].exists
    /\ callStack' = <<NewCall(url)>>
    /\ refresh' = [status |-> "running", url |-> url, includedFiles |-> {}]
    /\ UNCHANGED packFiles
    /\ UNCHANGED <<serverVars, indexVars, coreLanguageVars, schemaVars, completionVars,
                   resolutionVars>>

\* one pass of the loop of parseIncludes in the innermost call
ParseIncludes ==
    /\ callStack # <<>>
    /\ LET depth == Len(callStack)
           call == callStack[depth]
           includes == packFiles[call.url].includes
           url == includes[call.next]
       IN  /\ call.next <= Len(includes)
           /\ IF url \in call.skinFiles
                THEN /\ callStack' = [callStack EXCEPT ![depth].next = @ + 1]
                     /\ UNCHANGED refresh
                ELSE IF ~packFiles[url].exists
                THEN \* return: the loop ends here
                     /\ callStack' = [callStack EXCEPT ![depth].next = Len(includes) + 1]
                     /\ UNCHANGED refresh
                ELSE IF depth < MaxCallDepth
                THEN \* new SkinFileInfo (root, url, namespace) and refreshDefinitions
                     /\ callStack' = Append(callStack, NewCall(url))
                     /\ UNCHANGED refresh
                ELSE \* RangeError: Maximum call stack size exceeded
                     /\ callStack' = <<>>
                     /\ refresh' = [refresh EXCEPT !.status = "overflow"]
    /\ UNCHANGED packFiles
    /\ UNCHANGED <<serverVars, indexVars, coreLanguageVars, schemaVars, completionVars,
                   resolutionVars>>

\* refreshDefinitions returns; parseIncludes of the caller sets the file in
\* its map and goes on
Return ==
    /\ callStack # <<>>
    /\ LET depth == Len(callStack)
           call == callStack[depth]
       IN  /\ call.next > Len(packFiles[call.url].includes)
           /\ IF depth = 1
                THEN /\ callStack' = <<>>
                     /\ refresh' = [refresh EXCEPT !.status = "done",
                                                   !.includedFiles = call.skinFiles]
                ELSE /\ callStack' = [SubSeq(callStack, 1, depth - 1) EXCEPT
                                         ![depth - 1].skinFiles = @ \cup {call.url},
                                         ![depth - 1].next = @ + 1]
                     /\ UNCHANGED refresh
    /\ UNCHANGED packFiles
    /\ UNCHANGED <<serverVars, indexVars, coreLanguageVars, schemaVars, completionVars,
                   resolutionVars>>

----------------------------------------------------------------------------
(* The schema of the class model: ClassModelManager.isSkinElementValidInScope *)

ClassNames == {"A", "B", "C"}

\* the names a check is called with: the classes and a name of no class
ElementNames == ClassNames \cup {"X"}

NoClass == "null"

NoGroup == "null"

\* schemaGroups of a class without the attribute Class:SchemaGroups
NoGroups == {"null"}

\* the values of Class:SchemaGroups and Class:ChildGroup in the models
SchemaGroupValues == {{}, {"g"}}

ChildGroupValues == {"g", "A"}

\* no entry of the cache
NoClassDef == [known |-> FALSE, parent |-> NoClass, schemaGroups |-> NoGroups,
               childrenGroup |-> NoGroup]

ClassDef(parent, schemaGroups, childrenGroup) ==
    [known |-> TRUE, parent |-> parent, schemaGroups |-> schemaGroups,
     childrenGroup |-> childrenGroup]

\* the classes a class can name as its parent: the hierarchy has no cycle
ParentsOf(name) ==
    IF name = "A" THEN {NoClass}
    ELSE IF name = "B" THEN {NoClass, "A"}
    ELSE {NoClass, "A", "B"}

ClassDefsOf(name) ==
    {NoClassDef} \cup
    {ClassDef(parent, schemaGroups, childrenGroup) :
        parent \in ParentsOf(name),
        schemaGroups \in {NoGroups} \cup SchemaGroupValues,
        childrenGroup \in {NoGroup} \cup ChildGroupValues}

\* this.skinElementCache[className.toUpperCase ()]
CacheEntry(cache, className) ==
    IF className \in DOMAIN cache THEN cache[className] ELSE NoClassDef

RECURSIVE findChildrenGroup(_, _)
findChildrenGroup(cache, className) ==
    LET elem == CacheEntry(cache, className)
    IN  IF ~elem.known THEN NoGroup
        ELSE IF elem.childrenGroup # NoGroup THEN elem.childrenGroup
        ELSE IF elem.parent # NoClass THEN findChildrenGroup(cache, elem.parent)
        ELSE NoGroup

RECURSIVE findSchemaGroups(_, _)
findSchemaGroups(cache, className) ==
    LET elem == CacheEntry(cache, className)
    IN  IF ~elem.known THEN {}
        ELSE (IF elem.schemaGroups # NoGroups THEN elem.schemaGroups
              ELSE IF elem.parent # NoClass THEN findSchemaGroups(cache, elem.parent)
              ELSE {})
             \cup {className}

isSkinElementValidInScope(cache, schemaLoaded, parentName, childName) ==
    IF ~schemaLoaded THEN TRUE
    ELSE LET schemaGroups == findSchemaGroups(cache, childName)
             childrenGroup == findChildrenGroup(cache, parentName)
         IN  IF childrenGroup # NoGroup THEN childrenGroup \in schemaGroups ELSE FALSE

\* the class models cacheClasses reads: one without the attributes of the
\* schema, one with them
PlainModel == [name \in ClassNames |->
                 IF name = "B" THEN ClassDef("A", NoGroups, NoGroup)
                 ELSE ClassDef(NoClass, NoGroups, NoGroup)]

SchemaModel == [name \in ClassNames |->
                  IF name = "A" THEN ClassDef(NoClass, {"g"}, "g")
                  ELSE IF name = "B" THEN ClassDef("A", NoGroups, NoGroup)
                  ELSE ClassDef(NoClass, {}, "A")]

SchemaModels == {PlainModel, SchemaModel}

\* cacheClasses for one <Model.Class>: the entry of the cache is kept and
\* what the element gives is set
cacheClass(entry, classElem) ==
    [known |-> TRUE,
     parent |-> IF classElem.parent # NoClass THEN classElem.parent ELSE entry.parent,
     schemaGroups |-> IF classElem.schemaGroups # NoGroups
                        THEN classElem.schemaGroups ELSE entry.schemaGroups,
     childrenGroup |-> IF classElem.childrenGroup # NoGroup
                         THEN classElem.childrenGroup ELSE entry.childrenGroup]

\* the model has an attribute Class:SchemaGroups or Class:ChildGroup
HasSchemaAttributes(model) ==
    \E name \in DOMAIN model :
        model[name].schemaGroups # NoGroups \/ model[name].childrenGroup # NoGroup

NoScopeCheck == [called |-> FALSE, parentName |-> "", childName |-> "", result |-> TRUE]

\* loadClassModel: cacheClasses (this.skinElementCache, this.classModel)
CacheClasses(model) ==
    /\ classDefs' = [name \in ClassNames |-> cacheClass(classDefs[name], model[name])]
    /\ isSchemaLoaded' = (isSchemaLoaded \/ HasSchemaAttributes(model))
    /\ scopeCheck' = NoScopeCheck
    /\ UNCHANGED <<serverVars, indexVars, coreLanguageVars, includeVars, completionVars,
                   resolutionVars>>

\* ClassModelManager.reset
ResetCache ==
    /\ classDefs' = [name \in ClassNames |-> NoClassDef]
    /\ scopeCheck' = NoScopeCheck
    /\ UNCHANGED isSchemaLoaded
    /\ UNCHANGED <<serverVars, indexVars, coreLanguageVars, includeVars, completionVars,
                   resolutionVars>>

\* checkNode and the completion of tag names call it with a class of the
\* model (findSkinElementDefinitions) as the child
IsSkinElementValidInScope(parentName, childName) ==
    /\ CacheEntry(classDefs, childName).known
    /\ scopeCheck' = [called |-> TRUE, parentName |-> parentName, childName |-> childName,
                      result |-> isSkinElementValidInScope(classDefs, isSchemaLoaded,
                                                           parentName, childName)]
    /\ UNCHANGED <<classDefs, isSchemaLoaded>>
    /\ UNCHANGED <<serverVars, indexVars, coreLanguageVars, includeVars, completionVars,
                   resolutionVars>>

SchemaStart ==
    /\ classDefs = [name \in ClassNames |-> NoClassDef]
    /\ isSchemaLoaded = FALSE
    /\ scopeCheck = NoScopeCheck

----------------------------------------------------------------------------
(* The completion of a tag name: DocumentManager.findUnclosedTags and       *)
(* IntelliSenseProvider.getTagNameCompletionInformation, for documents of   *)
(* elements without comments and processing instructions                    *)

MaxLeading == 2

MaxTagsBefore == 2

MaxTagsAfter == 2

\* tagPart.substring (0, tagPart.search (/\S|$/))
leadingWhitespaces(tagPart) ==
    LET black == {k \in 1..Len(tagPart) : tagPart[k] # " "}
    IN  IF black = {} THEN tagPart
        ELSE SubSeq(tagPart, 1, (CHOOSE k \in black : \A j \in black : k <= j) - 1)

\* leadingWhitespaces + tagSubParts[0].split (">")[0]
tagNameOfPart(tagPart) ==
    leadingWhitespaces(tagPart) \o split(split(trim(tagPart), {" "})[1], {">"})[1]

\* tagPart.indexOf ("/>") != -1
IsSelfClosing(tagPart) ==
    \E k \in 1..(Len(tagPart) - 1) : tagPart[k] = "/" /\ tagPart[k + 1] = ">"

\* part is the place of the tag among the parts of the text (history)
TagLocation(name, index, part) == [name |-> name, index |-> index, part |-> part]

\* the while loop of a closing tag: tempStack after its pops
RECURSIVE popToMatch(_, _)
popToMatch(tempStack, tagName) ==
    IF tempStack # <<>> /\ <<"/">> \o tempStack[Len(tempStack)].name # tagName
      THEN popToMatch(SubSeq(tempStack, 1, Len(tempStack) - 1), tagName)
      ELSE tempStack

\* a closing tag: the stack and the results after it
closeTag(state, tagName, place) ==
    LET tagStack == state.elementStack
        tempStack == popToMatch(tagStack, tagName)
        resultAdded == Len(tempStack) < Len(tagStack)
    IN  IF resultAdded /\ tempStack = <<>>
          THEN [state EXCEPT !.danglingClosingTags =
                                 <<TagLocation(tagName, state.pos - 1, place)>> \o @]
          ELSE [state EXCEPT
                   !.unclosedTags = IF resultAdded
                                      THEN <<tagStack[Len(tagStack)]>> \o @ ELSE @,
                   !.elementStack = IF tempStack = <<>> THEN <<>>
                                    ELSE SubSeq(tempStack, 1, Len(tempStack) - 1)]

\* one pass of the loop over the parts of the text between "<"
scanPart(state, tagPart, place) ==
    LET counted == [state EXCEPT !.pos = @ + 1]
        moved == [counted EXCEPT !.pos = @ + Len(tagPart)]
    IN  IF trim(tagPart) = <<>>
          THEN counted
        ELSE IF IsSelfClosing(tagPart)
          THEN moved
        ELSE IF startsWith(tagPart, <<"/">>)
          THEN [closeTag(counted, tagNameOfPart(tagPart), place) EXCEPT
                   !.pos = @ + Len(tagPart)]
        ELSE [moved EXCEPT !.elementStack =
                 Append(@, TagLocation(tagNameOfPart(tagPart), counted.pos - 1, place))]

RECURSIVE scanParts(_, _, _)
scanParts(openTags, place, state) ==
    IF place > Len(openTags) THEN state
    ELSE scanParts(openTags, place + 1, scanPart(state, openTags[place], place))

\* Array.sort by index
RECURSIVE sortByIndex(_)
sortByIndex(tags) ==
    IF tags = <<>> THEN <<>>
    ELSE LET first == CHOOSE k \in 1..Len(tags) :
                         \A j \in 1..Len(tags) :
                            tags[k].index < tags[j].index
                            \/ (tags[k].index = tags[j].index /\ k <= j)
         IN  <<tags[first]>> \o
             sortByIndex(SubSeq(tags, 1, first - 1) \o SubSeq(tags, first + 1, Len(tags)))

\* DocumentManager.findUnclosedTags: unclosedTags of the result
findUnclosedTags(text) ==
    Bind(scanParts(split(text, {"<"}), 1,
                   [pos |-> 0, elementStack |-> <<>>, unclosedTags |-> <<>>,
                    danglingClosingTags |-> <<>>]),
         LAMBDA state : sortByIndex(state.unclosedTags \o state.elementStack))

\* text.indexOf (c, from)
indexOfFrom(text, c, from) ==
    Bind(indexOf(substring(text, from), {c}),
         LAMBDA found : IF found = -1 THEN -1 ELSE found + from)

NoData == <<"null">>

\* the item of a closing tag
SnippetItem(label) == [label |-> label, kind |-> "Snippet", preselect |-> TRUE]

\* the items of the classes of the model that are valid at the place
ClassItems == <<[label |-> <<"A">>, kind |-> "Class", preselect |-> FALSE]>>

\* the item of the first unclosed tag from place on that ends before the
\* cursor and whose follower begins behind it
RECURSIVE closingTagItems(_, _, _, _, _)
closingTagItems(text, index, data, unclosedTags, place) ==
    IF place > Len(unclosedTags) THEN <<>>
    ELSE IF /\ unclosedTags[place].index + Len(unclosedTags[place].name) < index
            /\ \/ place = Len(unclosedTags)
               \/ unclosedTags[place + 1].index >= index
      THEN LET prefix == IF data # NoData /\ startsWith(data, <<"/">>)
                           THEN <<>> ELSE <<"/">>
               dataLength == IF data # NoData /\ ~startsWith(data, <<"/">>)
                               THEN Len(data) ELSE 0
               closingIndex == indexOfFrom(text, ">", index)
               postfix == IF closingIndex = -1 \/ closingIndex > indexOfFrom(text, "<", index)
                            THEN <<">">> ELSE <<>>
           IN  <<SnippetItem(substring(prefix \o unclosedTags[place].name \o postfix,
                                       dataLength))>>
      ELSE closingTagItems(text, index, data, unclosedTags, place + 1)

\* getTagNameCompletionInformation for a tag with an empty name
getTagNameCompletionInformation(text, index, data) ==
    closingTagItems(text, index, data, findUnclosedTags(text), 1) \o ClassItems

NoItems == <<[label |-> <<>>, kind |-> "none", preselect |-> FALSE]>>

\* a completion request at the empty tag name at the cursor
TagNameCompletion ==
    /\ completionItems = NoItems
    /\ completionItems' = getTagNameCompletionInformation(editedText, targetIndex,
                                                          cclSkinData)
    /\ UNCHANGED <<editedText, targetIndex, cclSkinData>>
    /\ UNCHANGED <<serverVars, indexVars, coreLanguageVars, includeVars, schemaVars,
                   resolutionVars>>

\* the tags and the text between tags that a document is made of
DocumentTokens ==
    {<<"<", "A", ">">>, <<"<", "B", ">">>, <<"<", "/", "A", ">">>,
     <<"<", "/", "B", ">">>, <<" ">>}

TokenLists(n) == UNION {[1..k -> DocumentTokens] : k \in 0..n}

Whitespace(n) == [k \in 1..n |-> " "]

RECURSIVE Concat(_)
Concat(strs) == IF strs = <<>> THEN <<>> ELSE strs[1] \o Concat(Tail(strs))

CompletionStart ==
    /\ editedText = <<>>
    /\ targetIndex = 0
    /\ cclSkinData = NoData
    /\ completionItems = NoItems

IncludeStart ==
    /\ packFiles = [url \in PackUrls |-> NoPackFile]
    /\ callStack = <<>>
    /\ refresh = NoRefresh

-----------------------------------------------------------------------------
(* The resolution of variables whose definitions hold variables themselves *)

\* the value of an expression, evaluated once, handed to what follows
Once(value, Then(_)) == CHOOSE result \in {Then(v) : v \in {value}} : TRUE

MaxSites == 2

\* the depth of calls of getDefines and of replaceDependency at which the
\* call stack of the engine counts as used up
MaxResolveDepth == 4

\* the entries one call of resolve can visit before it counts as endless
MaxResolveSteps == 24

\* the calls of resolve after which the loop of resolveVariable counts as endless
MaxPasses == 4

\* the elements variables are resolved at, each the content of a form
Sites == 1..MaxSites

\* the values of the defines: plain, self-referential, mutually recursive
DefineValues == {<<"x">>, <<"$", "a">>, <<"$", "b">>, <<"y", "$", "a">>}

\* the strings handed to resolveVariable
ResolvedStrings == {<<"$", "a">>, <<"z", "$", "a", "b">>, <<"z">>}

\* the DefineInfos findFormName collects between an element and its form
SiteDefines ==
    {<<>>}
    \cup {<<[name |-> <<"a">>, values |-> <<v>>]>> : v \in DefineValues}
    \cup {<<[name |-> <<"a">>, values |-> <<<<"$", "b">>>>],
            [name |-> <<"b">>, values |-> <<w>>]>> : w \in DefineValues}

\* the elements that instantiate the form of an element, in the order of
\* forEachFileInScope and of SkinFileInfo.getViewParents
SiteParents ==
    {<<>>} \cup {<<s>> : s \in Sites}
           \cup {<<s, t>> : s \in 1..(MaxSites - 1), t \in {MaxSites}}

VariableResultToken(value, isConcrete) == [value |-> value, isConcrete |-> isConcrete]

NoResolveCall == [site |-> 0, variable |-> <<>>]

Minimum(S) == CHOOSE x \in S : \A y \in S : x <= y

\* the length of the longest name of some defines
LongestName(infos) ==
    IF infos = <<>> THEN 0 ELSE -Minimum({-Len(infos[k].name) : k \in 1..Len(infos)})

\* elementsSeen.has (elementId)
NeverSeen(elementsSeen, elementId) == FALSE

IsSeen(elementsSeen, elementId) == elementId \in elementsSeen

NoSubstitutions ==
    [substitutions |-> <<>>, minPostfixLength |-> -1, elementsSeen |-> {},
     stop |-> FALSE, overflow |-> FALSE]

\* the callback findMatchingVariableSubstitutions hands to getDefines; stop
\* is the value it returns
matchDefines(found, infos, part) ==
    LET matching == SelectSeq(infos, LAMBDA info : startsWith(part, info.name))
        currentMinPostfixLength ==
            IF matching = <<>> THEN -1
            ELSE Minimum({Len(part) - Len(matching[k].name) : k \in 1..Len(matching)})
        substitutions ==
            Flatten([k \in 1..Len(matching) |->
                        [v \in 1..Len(matching[k].values) |->
                            [postfix |-> substring(part, Len(matching[k].name)),
                             value |-> matching[k].values[v]]]])
    IN [found EXCEPT
            !.substitutions = @ \o substitutions,
            !.minPostfixLength =
                IF @ = -1 \/ (currentMinPostfixLength >= 0 /\ @ > currentMinPostfixLength)
                THEN currentMinPostfixLength ELSE @,
            !.stop = (currentMinPostfixLength = 0)]

\* VariableResolver.getDefines with the callback of
\* findMatchingVariableSubstitutions; depth counts the calls on the stack
RECURSIVE getDefinesAt(_, _, _, _, _, _)
RECURSIVE getDefinesOfParents(_, _, _, _, _, _)
getDefinesAt(defines, parents, site, part, given, depth) ==
    Once(given, LAMBDA found :
    IF found.overflow \/ IsSeen(found.elementsSeen, site) THEN found
    ELSE IF depth > MaxResolveDepth THEN [found EXCEPT !.overflow = TRUE]
    ELSE Once([found EXCEPT !.elementsSeen = @ \cup {site}, !.stop = FALSE], LAMBDA seen :
         Once(SortLongestFirst(defines[site], LongestName(defines[site])), LAMBDA resolves :
         Once(IF resolves # <<>> THEN matchDefines(seen, resolves, part) ELSE seen, LAMBDA called :
            IF called.stop THEN called
            ELSE IF parents[site] = <<>> THEN matchDefines(called, <<>>, part)
            ELSE getDefinesOfParents(defines, parents, parents[site], part, called, depth)))))

getDefinesOfParents(defines, parents, instantiations, part, given, depth) ==
    Once(given, LAMBDA found :
    IF instantiations = <<>> THEN found
    ELSE Once(getDefinesAt(defines, parents, instantiations[1], part, found, depth + 1),
              LAMBDA next :
                  getDefinesOfParents(defines, parents, Tail(instantiations), part, next, depth)))

\* VariableResolver.findMatchingVariableSubstitutions at an element
findSubstitutionsAt(defines, parents, site, part) ==
    Once(getDefinesAt(defines, parents, site, part, NoSubstitutions, 1), LAMBDA found :
        [substitutions |-> SelectSeq(found.substitutions,
                                     LAMBDA s : Len(s.postfix) <= found.minPostfixLength),
         overflow |-> found.overflow])

\* VariableResolver.resolveVariablePart at an element, for a part that names
\* no theme metric
resolveVariablePartAt(defines, parents, site, part) ==
    Once(findSubstitutionsAt(defines, parents, site, part), LAMBDA found :
        [partResults |->
            Unique(SelectSeq(found.substitutions, LAMBDA s :
                ~ (indexOf(s.value, {"$"}) > -1
                   /\ startsWith(part, substring(s.value, indexOf(s.value, {"$"}) + 1))))),
         overflow |-> found.overflow])

\* a VariableResolutionGraph: its keys in the order they were set, each with
\* its matrix of tokens
hasKey(graph, key) == \E k \in 1..Len(graph) : graph[k].key = key

resolutionsOf(graph, key) == graph[CHOOSE k \in 1..Len(graph) : graph[k].key = key].matrix

setKey(graph, key, matrix) ==
    IF hasKey(graph, key)
    THEN [k \in 1..Len(graph) |->
             IF graph[k].key = key THEN [key |-> key, matrix |-> matrix] ELSE graph[k]]
    ELSE Append(graph, [key |-> key, matrix |-> matrix])

deleteKey(graph, key) == SelectSeq(graph, LAMBDA e : e.key # key)

\* Array.splice (index, 1, ...items), index counted from 1
splice(array, index, items) ==
    IF index > Len(array) THEN array \o items
    ELSE SubSeq(array, 1, index - 1) \o items \o SubSeq(array, index + 1, Len(array))

\* the loop over col and offset of integrateResultForToken and of
\* replaceDependency: every entry of the row that matches gives way to the items
replaceEntries(row, Matches(_), items) ==
    Flatten([col \in 1..Len(row) |-> IF Matches(row[col]) THEN items ELSE <<row[col]>>])

replaceInMatrix(matrix, Matches(_), items) ==
    [row \in 1..Len(matrix) |-> replaceEntries(matrix[row], Matches, items)]

NoInternalResult ==
    [resolved |-> FALSE, resultTokens |-> <<>>, graph |-> <<>>, overflow |-> FALSE]

\* the loop over partResults of resolveVariableInternal
RECURSIVE addPartResults(_, _, _, _)
addPartResults(given, part, partResults, partResultIndex) ==
    Once(given, LAMBDA result :
    IF partResultIndex > Len(partResults) THEN result
    ELSE LET postfix == partResults[partResultIndex].postfix
             name == <<"$">> \o SubSeq(part, 1, Len(part) - Len(postfix))
             newResolution == partResults[partResultIndex].value
             resolutions == IF hasKey(result.graph, name)
                            THEN resolutionsOf(result.graph, name) ELSE <<>>
         IN addPartResults(
                [result EXCEPT
                    !.resultTokens =
                        IF partResultIndex > 1 THEN @
                        ELSE @ \o <<VariableResultToken(name, FALSE)>>
                               \o (IF postfix = <<>> THEN <<>>
                                   ELSE <<VariableResultToken(postfix, TRUE)>>),
                    !.graph = setKey(@, name,
                        Append(resolutions,
                               <<VariableResultToken(newResolution,
                                                     indexOf(newResolution, {"$"}) = -1)>>))],
                part, partResults, partResultIndex + 1))

\* the loop over variableParts of resolveVariableInternal
RECURSIVE resolveParts(_, _, _, _, _, _)
resolveParts(defines, parents, site, variableParts, i, given) ==
    Once(given, LAMBDA result :
    IF i > Len(variableParts) THEN result
    ELSE Once(resolveVariablePartAt(defines, parents, site, variableParts[i]), LAMBDA part :
            resolveParts(defines, parents, site, variableParts, i + 1,
                IF part.partResults = <<>>
                THEN [result EXCEPT
                         !.resultTokens =
                             Append(@, VariableResultToken(<<"$">> \o variableParts[i], TRUE)),
                         !.resolved = FALSE,
                         !.overflow = @ \/ part.overflow]
                ELSE [addPartResults(result, variableParts[i], part.partResults, 1) EXCEPT
                         !.overflow = @ \/ part.overflow])))

\* VariableResolver.resolveVariableInternal with a new result: what it
\* returns, the tokens and the graph of the result
resolveVariableInternal(defines, parents, site, str) ==
    IF indexOf(str, {"$"}) = -1 THEN NoInternalResult
    ELSE LET staticPart == SubSeq(str, 1, indexOf(str, {"$"}))
         IN resolveParts(defines, parents, site,
                         split(substring(str, Len(staticPart) + 1), {"$"}), 1,
                         [NoInternalResult EXCEPT
                             !.resolved = TRUE,
                             !.resultTokens =
                                 IF staticPart = <<>> THEN <<>>
                                 ELSE <<VariableResultToken(staticPart, TRUE)>>])

\* the loop over this.resultTokens of integrateResultForToken; a token read
\* beyond the end of the array raises a TypeError
RECURSIVE replaceResultTokens(_, _, _, _, _, _)
replaceResultTokens(given, token, items, i, offset, numTokens) ==
    Once(given, LAMBDA tokens :
    IF i >= numTokens THEN [resultTokens |-> tokens, error |-> FALSE]
    ELSE IF i + offset + 1 > Len(tokens) THEN [resultTokens |-> tokens, error |-> TRUE]
    ELSE IF tokens[i + offset + 1].value = token
         THEN replaceResultTokens(splice(tokens, i + offset + Len(items), items),
                                  token, items, i + 1, offset + Len(items) - 1, numTokens)
         ELSE replaceResultTokens(tokens, token, items, i + 1, offset, numTokens))

\* the keys of the result that the graph holds not yet
RECURSIVE addKeys(_, _)
addKeys(given, added) ==
    Once(given, LAMBDA graph :
    IF added = <<>> THEN graph
    ELSE addKeys(IF hasKey(graph, added[1].key) THEN graph ELSE Append(graph, added[1]),
                 Tail(added)))

\* VariableResolutionResult.integrateResultForToken, called while the result
\* holds one graph, this.variableResolutions[0]
integrateResultForToken(given, token, result) ==
    Once(given, LAMBDA this :
    Once(replaceResultTokens(this.resultTokens, token, result.resultTokens, 0, 0,
                             Len(this.resultTokens)), LAMBDA replaced :
    Once(addKeys(this.graphs[1], result.graph), LAMBDA graph :
        [this EXCEPT
            !.resultTokens = replaced.resultTokens,
            !.error = @ \/ replaced.error,
            !.graphs[1] = [k \in 1..Len(graph) |->
                          [key |-> graph[k].key,
                           matrix |-> replaceInMatrix(graph[k].matrix,
                                                      LAMBDA entry : entry.value = token,
                                                      result.resultTokens)]]])))

\* the loops of resolve over the resolved keys, the rows and the entries of
\* their matrices; steps counts the entries visited
RECURSIVE resolveEntries(_, _, _, _, _, _, _, _)
resolveEntries(defines, parents, site, given, resolvedKeys, resolvedIndex, row, i) ==
    Once(given, LAMBDA result :
    IF resolvedIndex > Len(resolvedKeys) \/ result.overflow \/ result.error THEN result
    ELSE IF ~ hasKey(result.graphs[1], resolvedKeys[resolvedIndex])
         THEN resolveEntries(defines, parents, site, result, resolvedKeys,
                             resolvedIndex + 1, 1, 1)
    ELSE Once(resolutionsOf(result.graphs[1], resolvedKeys[resolvedIndex]), LAMBDA matrix :
        IF row > Len(matrix)
        THEN resolveEntries(defines, parents, site, result, resolvedKeys,
                            resolvedIndex + 1, 1, 1)
        ELSE IF i > Len(matrix[row])
        THEN resolveEntries(defines, parents, site, result, resolvedKeys,
                            resolvedIndex, row + 1, 1)
        ELSE IF result.steps >= MaxResolveSteps THEN [result EXCEPT !.overflow = TRUE]
        ELSE IF matrix[row][i].isConcrete
        THEN resolveEntries(defines, parents, site, [result EXCEPT !.steps = @ + 1],
                            resolvedKeys, resolvedIndex, row, i + 1)
        ELSE Once(resolveVariableInternal(defines, parents, site, matrix[row][i].value),
                  LAMBDA resolutionResult :
                 resolveEntries(defines, parents, site,
                     IF ~ resolutionResult.resolved
                     THEN [result EXCEPT !.steps = @ + 1,
                                         !.overflow = @ \/ resolutionResult.overflow]
                     ELSE [integrateResultForToken(result, matrix[row][i].value,
                                                   resolutionResult) EXCEPT
                              !.steps = @ + 1,
                              !.overflow = @ \/ resolutionResult.overflow,
                              !.anythingResolved =
                                  @ \/ \E t \in 1..Len(resolutionResult.resultTokens) :
                                          /\ ~ resolutionResult.resultTokens[t].isConcrete
                                          /\ ~ hasKey(result.graphs[1],
                                                      resolutionResult.resultTokens[t].value)],
                     resolvedKeys, resolvedIndex, row, i + 1))))

\* the function resolve of resolveVariable
resolve(defines, parents, site, given) ==
    Once(given, LAMBDA result :
    resolveEntries(defines, parents, site,
                   [result EXCEPT !.anythingResolved = FALSE, !.steps = 0],
                   [k \in 1..Len(result.graphs[1]) |-> result.graphs[1][k].key], 1, 1, 1))

\* VariableResolutionResult.getDependencies: the dependencies, and the
\* matrix with the entries that were found concrete
getDependencies(value, given) ==
    Once(given, LAMBDA graph :
    IF ~ hasKey(graph, value) THEN [dependencies |-> <<>>, graph |-> graph]
    ELSE Once(resolutionsOf(graph, value), LAMBDA matrix :
        [dependencies |->
            Unique(Flatten([row \in 1..Len(matrix) |->
                [k \in 1..Len(SelectSeq(matrix[row],
                                        LAMBDA res : ~ res.isConcrete /\ hasKey(graph, res.value)))
                    |-> SelectSeq(matrix[row],
                                  LAMBDA res : ~ res.isConcrete
                                               /\ hasKey(graph, res.value))[k].value]])),
         graph |->
            setKey(graph, value,
                [row \in 1..Len(matrix) |->
                    [col \in 1..Len(matrix[row]) |->
                        IF ~ matrix[row][col].isConcrete
                           /\ ~ hasKey(graph, matrix[row][col].value)
                        THEN VariableResultToken(matrix[row][col].value, TRUE)
                        ELSE matrix[row][col]]])]))

\* VariableResolutionResult.cloneResolutionAt, index counted from 1
cloneResolutionAt(graphs, index, times) ==
    SubSeq(graphs, 1, index) \o [k \in 1..times |-> graphs[index]]
        \o SubSeq(graphs, index + 1, Len(graphs))

\* the loop over the keys of a graph in replaceDependency: in the graph at
\* index and in its clones, the entries that name the dependency give way to
\* the row of the dependency with the number of the clone
replaceInGraphs(given, index, dependency, res) ==
    Once(given, LAMBDA graphs :
    [g \in 1..Len(graphs) |->
        IF g < index \/ g >= index + Len(res) THEN graphs[g]
        ELSE [k \in 1..Len(graphs[g]) |->
                 IF graphs[g][k].key = dependency \/ ~ hasKey(graphs[index], graphs[g][k].key)
                 THEN graphs[g][k]
                 ELSE [key |-> graphs[g][k].key,
                       matrix |-> replaceInMatrix(graphs[g][k].matrix,
                                     LAMBDA entry : ~ entry.isConcrete /\ entry.value = dependency,
                                     res[g - index + 1])]]])

\* this.replacedDependencies.indexOf (dependency) > -1
NeverReplaced(replacedDependencies, dependency) == FALSE

IsReplaced(replacedDependencies, dependency) ==
    \E k \in 1..Len(replacedDependencies) : replacedDependencies[k] = dependency

\* VariableResolutionResult.replaceDependency; depth counts the calls on the
\* stack, and a graph read beyond the end of the array raises a TypeError
RECURSIVE replaceDependency(_, _, _)
RECURSIVE replaceInResolutions(_, _, _, _, _, _)
RECURSIVE replaceDependencies(_, _, _, _, _)
replaceDependency(given, dependency, depth) ==
    Once(given, LAMBDA this :
    IF this.overflow \/ this.error \/ IsReplaced(this.replacedDependencies, dependency)
    THEN this
    ELSE IF depth > MaxResolveDepth THEN [this EXCEPT !.overflow = TRUE]
    ELSE replaceInResolutions([this EXCEPT !.replacedDependencies = Append(@, dependency)],
                              dependency, 0, 0, Len(this.graphs), depth))

\* the loop over the dependencies: [the result, numResolutions]
replaceDependencies(given, dependencies, d, index, depth) ==
    Once(given, LAMBDA this :
    IF d > Len(dependencies) \/ this.overflow \/ this.error THEN this
    ELSE Once(replaceDependency(this, dependencies[d], depth + 1), LAMBDA replaced :
            replaceDependencies(
                [replaced EXCEPT !.graphs[index] = deleteKey(@, dependencies[d])],
                dependencies, d + 1, index, depth)))

\* the loop over resolutionIndex
replaceInResolutions(given, dependency, resolutionIndex, resolutionOffset, numResolutions, depth) ==
    Once(given, LAMBDA this :
    IF resolutionIndex >= numResolutions \/ this.overflow \/ this.error THEN this
    ELSE IF resolutionIndex + resolutionOffset + 1 > Len(this.graphs)
    THEN [this EXCEPT !.error = TRUE]
    ELSE Once(resolutionIndex + resolutionOffset + 1, LAMBDA index :
         Once(getDependencies(dependency, this.graphs[index]), LAMBDA found :
         Once(replaceDependencies([this EXCEPT !.graphs[index] = found.graph],
                                  found.dependencies, 1, index, depth), LAMBDA replaced :
            IF replaced.overflow \/ replaced.error THEN replaced
            ELSE IF ~ hasKey(replaced.graphs[index], dependency) THEN replaced
            ELSE Once(resolutionsOf(replaced.graphs[index], dependency), LAMBDA res :
                IF res = <<>> THEN replaced
                ELSE replaceInResolutions(
                        [replaced EXCEPT
                            !.graphs = replaceInGraphs(
                                           cloneResolutionAt(@, index, Len(res) - 1),
                                           index, dependency, res)],
                        dependency, resolutionIndex + 1, resolutionOffset + Len(res) - 1,
                        IF found.dependencies = <<>> THEN numResolutions
                        ELSE Len(replaced.graphs), depth))))))

InitToken == <<"$", "_", "_", "i", "n", "i", "t">>

\* VariableResolutionResult.process of a result with tokens and one graph
process(given) ==
    Once(given, LAMBDA this :
    Once(IF Len(this.resultTokens) > 1
         THEN [this EXCEPT
                  !.graphs[1] = setKey(@, InitToken, <<this.resultTokens>>),
                  !.resultTokens = <<VariableResultToken(InitToken, FALSE)>>]
         ELSE this, LAMBDA initial :
        IF initial.resultTokens[1].isConcrete THEN initial
        ELSE replaceDependency(initial, initial.resultTokens[1].value, 1)))

\* the strings toStrings builds from the rows of the first token
stringsOf(given) ==
    Once(given, LAMBDA this :
    IF this.resultTokens[1].isConcrete THEN <<this.resultTokens[1].value>>
    ELSE Once(Unique(Flatten([resolutionIndex \in 1..Len(this.graphs) |->
                 IF ~ hasKey(this.graphs[resolutionIndex], this.resultTokens[1].value)
                 THEN <<>>
                 ELSE Once(resolutionsOf(this.graphs[resolutionIndex],
                                         this.resultTokens[1].value), LAMBDA res :
                          [row \in 1..Len(res) |->
                              Flatten([col \in 1..Len(res[row]) |-> res[row][col].value])])])),
              LAMBDA result :
                  IF result = <<>> THEN <<this.resultTokens[1].value>> ELSE result))

NoResolution ==
    [phase |-> "idle", resultTokens |-> <<>>, graphs |-> <<<<>>>>,
     replacedDependencies |-> <<>>, anythingResolved |-> FALSE, steps |-> 0,
     passes |-> 0, overflow |-> FALSE, error |-> FALSE, strings |-> <<>>]

\* where a call of resolveVariable stands after a step
phaseAfter(result, phase) ==
    IF result.overflow THEN "overflow" ELSE IF result.error THEN "error" ELSE phase

\* resolveVariable (url, element, variable) up to its loop: a string without
\* "$" is returned, any other string is handed to resolveVariableInternal
ResolveVariableAt(site, str) ==
    /\ resolution.phase = "idle"
    /\ resolveCall' = [site |-> site, variable |-> str]
    /\ resolution' =
           IF indexOf(str, {"$"}) = -1
           THEN [NoResolution EXCEPT !.phase = "done", !.strings = <<str>>]
           ELSE Once(resolveVariableInternal(viewDefines, viewParents, site, str),
                     LAMBDA result :
                         [NoResolution EXCEPT
                             !.phase = IF result.overflow THEN "overflow" ELSE "resolving",
                             !.resultTokens = result.resultTokens,
                             !.graphs = <<result.graph>>,
                             !.overflow = result.overflow])
    /\ UNCHANGED <<viewDefines, viewParents>>
    /\ UNCHANGED <<serverVars, indexVars, coreLanguageVars, includeVars, schemaVars,
                   completionVars>>

\* one turn of while(resolve (result))
Resolve ==
    /\ resolution.phase = "resolving"
    /\ resolution' =
           Once(resolve(viewDefines, viewParents, resolveCall.site, resolution),
                LAMBDA result :
                    IF ~ result.anythingResolved
                    THEN [result EXCEPT !.phase = phaseAfter(result, "resolved")]
                    ELSE IF result.passes + 1 >= MaxPasses
                    THEN [result EXCEPT !.phase = "overflow", !.overflow = TRUE]
                    ELSE [result EXCEPT !.phase = phaseAfter(result, "resolving"),
                                        !.passes = @ + 1])
    /\ UNCHANGED <<viewDefines, viewParents, resolveCall>>
    /\ UNCHANGED <<serverVars, indexVars, coreLanguageVars, includeVars, schemaVars,
                   completionVars>>

\* return result.toStrings ()
ToStrings ==
    /\ resolution.phase = "resolved"
    /\ resolution' =
           IF resolution.resultTokens = <<>>
           THEN [resolution EXCEPT !.phase = "done", !.strings = <<>>]
           ELSE Once(process(resolution), LAMBDA result :
                    IF result.overflow \/ result.error
                    THEN [result EXCEPT !.phase = phaseAfter(result, "done")]
                    ELSE [result EXCEPT !.phase = "done", !.strings = stringsOf(result)])
    /\ UNCHANGED <<viewDefines, viewParents, resolveCall>>
    /\ UNCHANGED <<serverVars, indexVars, coreLanguageVars, includeVars, schemaVars,
                   completionVars>>

ResolutionStart ==
    /\ viewDefines = [s \in Sites |-> <<>>]
    /\ viewParents = [s \in Sites |-> <<>>]
    /\ resolveCall = NoResolveCall
    /\ resolution = NoResolution

FurtherStart ==
    /\ IncludeStart
    /\ SchemaStart
    /\ CompletionStart
    /\ ResolutionStart

ServerStart ==
    /\ now = 2 * kValidationDelay
    /\ currentCheckTime = 0
    /\ documentCheckTimeout = NoTimer
    /\ timers = {}
    /\ starts = <<>>
    /\ tasks = <<>>
    /\ walks = <<>>
    /\ published = <<>>
    /\ lastChange = 0
    /\ changedAt = [d \in Docs |-> 0]

IndexStart ==
    /\ modTime = [f \in Files |-> FileModTime]
    /\ currentDocument = NoDocument
    /\ skinFiles = [f \in {} |-> NoLocation]
    /\ fileIncludes = <<>>
    /\ lastQuery = NoQuery

ResolverStart ==
    /\ elementChain = <<>>
    /\ variable = <<>>
    /\ resolved = NotResolved

ParserStart ==
    /\ expression = <<>>
    /\ evaluated = NotEvaluated

CheckerStart ==
    /\ checkedTag = [name |-> "", attributeName |-> "", attributeValue |-> <<>>]
    /\ checkedType = {}
    /\ checked = NotChecked

ClassModelStart ==
    /\ modelFiles = [path \in ModelPaths |-> ModelFile("a", 1)]
    /\ classModelManager = NewClassModelManager
    /\ lastLoad = NoLoad
    /\ latestSkinElementsPath = ""
    /\ latestVisualStylesPath = ""

LanguageStart ==
    /\ ResolverStart
    /\ ParserStart
    /\ CheckerStart
    /\ ClassModelStart
    /\ FurtherStart

\* the server with an empty skin pack on disk
ServerInit ==
    /\ ServerStart
    /\ dom \in TreeShapes
    /\ throwing \in {{}} \cup {{n} : n \in Nodes}
    /\ IndexStart
    /\ LanguageStart
    /\ platform = "linux"
    /\ includeName = ""
    /\ fileText = [f \in Files |-> <<>>]

ServerNext ==
    \/ \E d \in Docs : ContentChange(d)
    \/ TimerFire
    \/ ConfigurationChange
    \/ \E d \in Docs : ActiveTextEditor(d)
    \/ StartWalk
    \/ RunTask
    \/ Tick

SpecServer == ServerInit /\ [][ServerNext]_vars

\* the index of a skin pack, with no validation walk under way
IndexInit ==
    /\ ServerStart
    /\ dom = [n \in Nodes |-> n - 1]
    /\ throwing = {}
    /\ IndexStart
    /\ LanguageStart
    /\ platform \in Platforms
    /\ includeName \in Namespaces
    /\ fileText \in [Files -> Texts(MaxItems)]
    /\ Len(fileText[kSkinXMLFileName]) <= MaxRootItems

QueryTypes == {"kStyle"}

IndexNext ==
    \/ \E d \in Files : BuildDefinitionDirectory(d)
    \/ \E url \in Files, type \in QueryTypes, value \in QueryValues :
          IsDefined(url, type, value)
    \/ \E url \in Files, type \in QueryTypes, value \in QueryValues :
          LookupDefinition(url, type, value)
    \/ \E url \in Files : GetDuplicateDefinitions(url)
    \/ \E url \in Files, options \in IterateOptions : ForEachFileInScope(url, options)

SpecIndex == IndexInit /\ [][IndexNext]_vars

\* the index of a skin pack whose files change while time passes
RefreshInit ==
    /\ ServerStart
    /\ dom = [n \in Nodes |-> n - 1]
    /\ throwing = {}
    /\ IndexStart
    /\ LanguageStart
    /\ platform = "darwin"
    /\ includeName = "A"
    /\ fileText \in [Files -> RefreshTexts]

RefreshNext ==
    \/ \E d \in Files : BuildDefinitionDirectory(d)
    \/ \E url \in Files : GetDuplicateDefinitions(url)
    \/ \E url \in Files : Completion(url)
    \/ \E url \in Files : Hover(url)
    \/ \E text \in RefreshTexts : EditDocument(text)
    \/ \E text \in RefreshTexts : WriteFile(text)
    \/ Tick

SpecRefresh == RefreshInit /\ [][RefreshNext]_vars

\* the open document is edited, completed and validated
ValidationNext ==
    \/ \E text \in RefreshTexts : ChangeContent(text)
    \/ ValidateDocument
    \/ \E url \in Files : Completion(url)
    \/ Tick

SpecValidation == RefreshInit /\ [][ValidationNext]_vars

\* one element of a document and the strings resolved at it
ResolverInit ==
    /\ ServerStart
    /\ dom = [n \in Nodes |-> n - 1]
    /\ throwing = {}
    /\ IndexStart
    /\ platform = "linux"
    /\ includeName = ""
    /\ fileText = [f \in Files |-> <<>>]
    /\ elementChain \in {<<child, foreach, parent>> :
                     child \in ChildElements, foreach \in Foreaches, parent \in ParentElements}
    /\ variable \in VariableStrings
    /\ resolved = NotResolved
    /\ ParserStart
    /\ CheckerStart
    /\ ClassModelStart
    /\ FurtherStart

ResolverNext ==
    \/ ResolveVariable

SpecResolver == ResolverInit /\ [][ResolverNext]_vars

\* one expression and its evaluation
ParserInit ==
    /\ ServerStart
    /\ dom = [n \in Nodes |-> n - 1]
    /\ throwing = {}
    /\ IndexStart
    /\ platform = "linux"
    /\ includeName = ""
    /\ fileText = [f \in Files |-> <<>>]
    /\ ResolverStart
    /\ expression \in Expressions
    /\ evaluated = NotEvaluated
    /\ CheckerStart
    /\ ClassModelStart
    /\ FurtherStart

ParserNext ==
    \/ Evaluate

SpecParser == ParserInit /\ [][ParserNext]_vars

\* one element with one attribute, and its check
CheckerInit ==
    /\ ServerStart
    /\ dom = [n \in Nodes |-> n - 1]
    /\ throwing = {}
    /\ IndexStart
    /\ platform = "linux"
    /\ includeName = ""
    /\ fileText = [f \in Files |-> <<>>]
    /\ ResolverStart
    /\ ParserStart
    /\ checkedTag \in Tags
    /\ checkedType \in (SUBSET TypeBits) \ {{}}
    /\ checked = NotChecked
    /\ ClassModelStart
    /\ FurtherStart

CheckerNext ==
    \/ CheckAttributes

SpecChecker == CheckerInit /\ [][CheckerNext]_vars

\* the class model manager before its first load, with both model files on disk
ClassModelInit ==
    /\ ServerStart
    /\ dom = [n \in Nodes |-> n - 1]
    /\ throwing = {}
    /\ IndexStart
    /\ platform = "linux"
    /\ includeName = ""
    /\ fileText = [f \in Files |-> <<>>]
    /\ ResolverStart
    /\ ParserStart
    /\ CheckerStart
    /\ ClassModelStart
    /\ FurtherStart

ClassModelNext ==
    \/ \E path \in ModelPaths : LoadClassModel(path)
    \/ \E path \in ModelPaths : LoadStyleModel(path)
    \/ ResetClassModel
    \/ \E path \in ModelPaths, text \in ModelTexts, mtime \in 1..MaxModelTime :
          WriteModelFile(path, text, mtime)
    \/ \E path \in ModelPaths : DeleteModelFile(path)

SpecClassModel == ClassModelInit /\ [][ClassModelNext]_vars

\* the server before its first validation, with every model file on disk
ModelsInit ==
    /\ ServerStart
    /\ dom = [n \in Nodes |-> n - 1]
    /\ throwing = {}
    /\ IndexStart
    /\ platform = "linux"
    /\ includeName = ""
    /\ fileText = [f \in Files |-> <<>>]
    /\ ResolverStart
    /\ ParserStart
    /\ CheckerStart
    /\ modelFiles = [path \in ModelPaths \cup StylePaths |-> ModelFile("a", 1)]
    /\ classModelManager = NewClassModelManager
    /\ lastLoad = NoLoad
    /\ latestSkinElementsPath = ""
    /\ latestVisualStylesPath = ""
    /\ FurtherStart

ModelsNext ==
    \/ \E skinElementsPath \in SkinElementsSettings,
          visualStylesPath \in VisualStylesSettings :
          LoadModels(skinElementsPath, visualStylesPath)
    \/ \E path \in ModelPaths \cup StylePaths, text \in ModelTexts,
          mtime \in 1..MaxModelTime : WriteModelFile(path, text, mtime)
    \/ \E path \in ModelPaths \cup StylePaths : DeleteModelFile(path)

SpecModels == ModelsInit /\ [][ModelsNext]_vars

\* a class model with its schema is loaded, or none is; the parent of a class
\* is a class of the model
SchemaInit ==
    /\ ServerStart
    /\ dom = [n \in Nodes |-> n - 1]
    /\ throwing = {}
    /\ IndexStart
    /\ platform = "linux"
    /\ includeName = ""
    /\ fileText = [f \in Files |-> <<>>]
    /\ ResolverStart
    /\ ParserStart
    /\ CheckerStart
    /\ ClassModelStart
    /\ IncludeStart
    /\ classDefs \in [ClassNames -> UNION {ClassDefsOf(name) : name \in ClassNames}]
    /\ \A name \in ClassNames :
          /\ classDefs[name] \in ClassDefsOf(name)
          /\ classDefs[name].parent # NoClass => classDefs[classDefs[name].parent].known
    /\ isSchemaLoaded = HasSchemaAttributes(classDefs)
    /\ scopeCheck = NoScopeCheck
    /\ CompletionStart
    /\ ResolutionStart

SchemaNext ==
    \/ \E model \in SchemaModels : CacheClasses(model)
    \/ ResetCache
    \/ \E parentName \in ElementNames, childName \in ClassNames :
          IsSkinElementValidInScope(parentName, childName)

SpecSchema == SchemaInit /\ [][SchemaNext]_vars

\* a document with "<" typed at the cursor: whitespace, tags, the "<", tags
CompletionInit ==
    /\ ServerStart
    /\ dom = [n \in Nodes |-> n - 1]
    /\ throwing = {}
    /\ IndexStart
    /\ platform = "linux"
    /\ includeName = ""
    /\ fileText = [f \in Files |-> <<>>]
    /\ ResolverStart
    /\ ParserStart
    /\ CheckerStart
    /\ ClassModelStart
    /\ IncludeStart
    /\ SchemaStart
    /\ \E leading \in 0..MaxLeading, before \in TokenLists(MaxTagsBefore),
          after \in TokenLists(MaxTagsAfter) :
          /\ editedText = Whitespace(leading) \o Concat(before) \o <<"<">> \o Concat(after)
          /\ targetIndex = leading + Len(Concat(before)) + 1
    /\ cclSkinData \in {NoData, <<>>}
    /\ completionItems = NoItems
    /\ ResolutionStart

CompletionNext == TagNameCompletion

SpecCompletion == CompletionInit /\ [][CompletionNext]_vars

\* a skin pack on disk: each file is there or not, and includes files
IncludesInit ==
    /\ ServerStart
    /\ dom = [n \in Nodes |-> n - 1]
    /\ throwing = {}
    /\ IndexStart
    /\ platform = "linux"
    /\ includeName = ""
    /\ fileText = [f \in Files |-> <<>>]
    /\ ResolverStart
    /\ ParserStart
    /\ CheckerStart
    /\ ClassModelStart
    /\ packFiles \in [PackUrls -> {NoPackFile} \cup {PackFile(urls) : urls \in IncludeLists}]
    /\ callStack = <<>>
    /\ refresh = NoRefresh
    /\ SchemaStart
    /\ CompletionStart
    /\ ResolutionStart

IncludesNext ==
    \/ \E url \in PackUrls : RefreshDefinitions(url)
    \/ ParseIncludes
    \/ Return

\* a call in progress goes on: the engine runs it to its end
SpecIncludes ==
    /\ IncludesInit
    /\ [][IncludesNext]_vars
    /\ WF_vars(ParseIncludes)
    /\ WF_vars(Return)

ResolutionInit ==
    /\ ServerStart
    /\ dom = [n \in Nodes |-> n - 1]
    /\ throwing = {}
    /\ IndexStart
    /\ platform = "linux"
    /\ includeName = ""
    /\ fileText = [f \in Files |-> <<>>]
    /\ ResolverStart
    /\ ParserStart
    /\ CheckerStart
    /\ ClassModelStart
    /\ IncludeStart
    /\ SchemaStart
    /\ CompletionStart
    /\ viewDefines \in [Sites -> SiteDefines]
    /\ viewParents \in [Sites -> SiteParents]
    /\ resolveCall = NoResolveCall
    /\ resolution = NoResolution

ResolutionNext ==
    \/ \E site \in Sites, str \in ResolvedStrings : ResolveVariableAt(site, str)
    \/ Resolve
    \/ ToStrings

\* every step of a call of resolveVariable is taken in the end
SpecResolution ==
    ResolutionInit /\ [][ResolutionNext]_vars /\ WF_vars(Resolve) /\ WF_vars(ToStrings)

----------------------------------------------------------------------------
(* Claims about the validation scheduling, checked under SpecServer *)

WalkIds == 1..Len(walks)

\* C1 (as stated): a validation walk that was in flight (started, yielded, not
\* finished) when a later validation walk started, whatever requested it,
\* never runs to completion: validations never stack.
C1_ValidationsNeverStack ==
    \A i \in WalkIds : \A j \in walks[i].inflight : walks[j].status # "resolved"

\* C1 (amended): a validation walk that was in flight when a content change
\* arrived never runs to completion; it is aborted when it resumes.
C1_ContentChangeAbortsYieldedWalks ==
    \A i \in WalkIds :
        walks[i].superseded =>
            /\ walks[i].status # "resolved"
            /\ \A k \in 1..Len(published) : published[k].walk # i

\* a walk that a content change found in flight resumed and was aborted
C1_Witness ==
    \E i \in WalkIds :
        walks[i].superseded /\ walks[i].aborted /\ walks[i].status = "rejected"

\* C2: at most one debounced validation is pending, it is due no earlier
\* than kValidationDelay after the most recent content change, and every
\* debounced validation that fired did so at least kValidationDelay after the
\* most recent content change.
C2_SingleDebouncedValidation ==
    /\ Cardinality(timers) <= 1
    /\ \A t \in timers : t.due >= lastChange + kValidationDelay
    /\ \A k \in 1..Len(starts) :
          starts[k].via = "debounce" => starts[k].waited >= kValidationDelay
    /\ \A i \in WalkIds :
          walks[i].via = "debounce" => walks[i].waited >= kValidationDelay

\* a debounced validation ran whose timer had replaced an earlier pending one
C2_Witness ==
    \E i \in WalkIds : walks[i].via = "debounce" /\ walks[i].replaced

\* the diagnostics of the DOM walk in document order: per element its own
\* diagnostic, then its attributes', then its descendants', then the siblings'
DocumentOrderDiagnostics ==
    [k \in 1..(2 * NumNodes) |->
        [kind |-> IF k % 2 = 1 THEN "element" ELSE "attribute", node |-> (k + 1) \div 2]]

\* C3: every published diagnostic list holds the walk's diagnostics in
\* document order, then the unclosed-tag, the dangling-tag and the
\* duplicate-definition diagnostics, whether or not the walk yielded.
C3_PublishedInDocumentOrder ==
    \A k \in 1..Len(published) :
        published[k].diags =
            DocumentOrderDiagnostics \o
            << [kind |-> "unclosed", node |-> 0], [kind |-> "dangling", node |-> 0],
               [kind |-> "duplicate", node |-> 0] >>

\* C4: a walk in which a per-element check threw, which was not aborted as
\* stale and has no continuation left, has completed and published.
C4_ThrowingCheckStillPublishes ==
    \A i \in WalkIds :
        (walks[i].threw /\ ~walks[i].aborted /\ walks[i].pending = 0)
            => /\ walks[i].status = "resolved"
               /\ \E k \in 1..Len(published) : published[k].walk = i

----------------------------------------------------------------------------
(* Claims about the definition index, checked under SpecIndex *)

\* the Style elements of a file
ElementsOf(f) == {i \in 1..Len(fileText[f]) : IsTag(fileText[f][i])}

\* the namespace under which the skin pack includes a file
NamespaceOf(f) == IF f = IncludedFile THEN includeName ELSE ""

\* the qualified name a reference written in file url stands for
QualifiedName(url, value) ==
    [ns |-> IF value.abs THEN "" ELSE IF value.ns # "" THEN value.ns ELSE NamespaceOf(url),
     name |-> value.name]

\* the nearest platform directive before position j + 1 excludes platform ps
RECURSIVE ExcludedByPlatform(_, _, _)
ExcludedByPlatform(text, j, ps) ==
    IF j = 0 THEN FALSE
    ELSE IF text[j].tag = "?platform" THEN text[j].arg # ps
    ELSE IF text[j].tag = "?not:platform" THEN text[j].arg = ps
    ELSE IF text[j].tag = "?platform?" THEN FALSE
    ELSE ExcludedByPlatform(text, j - 1, ps)

\* element i of file f is under a platform gate that excludes the current OS;
\* an OS that is neither mac nor win is excluded by no gate
PlatformGated(f, i) ==
    PlatformString # "" /\ ExcludedByPlatform(fileText[f], i - 1, PlatformString)

\* element i of the text follows a ?language, ?defined or ?not: directive
InOptionalBlock(text, i) ==
    \E j \in 1..(i - 1) : text[j].tag \in {"?language", "?defined", "?not:platform"}

\* the hits of a lookup that carry override="true"
OverridingHits(hits) == {k \in 1..Len(hits) : HasOverride(hits[k])}

\* C5: no duplicate-definition record is returned for a pair of definitions
\* of which exactly one has override="true", be they in two files or in one.
C5_OverrideSuppressesDuplicate ==
    lastQuery.op = "getDuplicateDefinitions" =>
        \A k \in 1..Len(lastQuery.result) :
            HasOverride([uri |-> lastQuery.url, range |-> lastQuery.result[k].range])
                = HasOverride(lastQuery.result[k].otherDefinition)

\* C6 (as stated): a lookup with more than one hit returns the overriding
\* hit when exactly one hit has override="true", and all hits in every other
\* case (no overriding hit, or two or more).
C6_ExactlyOneOverrideElseAll ==
    (lastQuery.op = "lookupDefinition" /\ Len(lastQuery.hits) > 1) =>
        LET ov == OverridingHits(lastQuery.hits)
        IN IF Cardinality(ov) = 1
           THEN lastQuery.result = <<lastQuery.hits[CHOOSE k \in ov : TRUE]>>
           ELSE lastQuery.result = lastQuery.hits

\* C6 (amended): a lookup with more than one hit returns the first hit, in
\* traversal order, that has override="true" when there is one (also when
\* several hits have it), and all hits when no hit has it.
C6_FirstOverrideElseAll ==
    (lastQuery.op = "lookupDefinition" /\ Len(lastQuery.hits) > 1) =>
        LET ov == OverridingHits(lastQuery.hits)
        IN IF ov # {}
           THEN lastQuery.result =
                    <<lastQuery.hits[CHOOSE k \in ov : \A j \in ov : k <= j]>>
           ELSE lastQuery.result = lastQuery.hits

\* a lookup found two overriding hits and returned the first one only
C6_Witness ==
    /\ lastQuery.op = "lookupDefinition"
    /\ Cardinality(OverridingHits(lastQuery.hits)) >= 2
    /\ lastQuery.result = <<lastQuery.hits[1]>>

\* C7: isDefined (T, N) asked from a file is true exactly when some file of
\* the pack holds a definition of type T, not excluded by a platform gate,
\* whose qualified name is the one N stands for in the asking file.
C7_IsDefinedIffDefinitionInScope ==
    lastQuery.op = "isDefined" =>
        (lastQuery.result <=>
            \E f \in Files : \E i \in ElementsOf(f) :
                /\ ~PlatformGated(f, i)
                /\ [ns |-> NamespaceOf(f), name |-> fileText[f][i].name]
                       = QualifiedName(lastQuery.url, lastQuery.value))

\* C8: no duplicate-definition record is returned for a definition that
\* lies inside a ?language, ?defined or ?not: block, whether its namesake
\* is in the same file or in another one.
C8_OptionalNeverDuplicate ==
    lastQuery.op = "getDuplicateDefinitions" =>
        \A k \in 1..Len(lastQuery.result) :
            ~InOptionalBlock(fileText[lastQuery.url], lastQuery.result[k].range)

\* C9: on an OS that is neither mac nor win every definition of a parsed
\* file is indexed: the index holds it, or a later definition of its name.
C9_NoGatingOnOtherPlatforms ==
    platform = "linux" =>
        \A f \in DOMAIN skinFiles : \A i \in ElementsOf(f) :
            skinFiles[f].styleDefinitions[fileText[f][i].name] >= i

\* C10 (as stated): forEachFileInScope hands another file of a different
\* namespace to the callback only when kAllowForeignNamespaces is set.
C10_ForeignOnlyWhenAllowed ==
    lastQuery.op = "forEachFileInScope" =>
        \A k \in 1..Len(lastQuery.result) :
            LET f == lastQuery.result[k]
            IN (f # lastQuery.url /\ NamespaceOf(f) # NamespaceOf(lastQuery.url))
                   => "kAllowForeignNamespaces" \in lastQuery.options

\* C10 (amended): forEachFileInScope leaves out the other files of a
\* different namespace exactly when kIsUnqualifiedForm is set,
\* kAllowForeignNamespaces is not, and the asking file has a namespace; in
\* every other case it hands every other file of the pack to the callback.
C10_ForeignSkippedForUnqualifiedForm ==
    lastQuery.op = "forEachFileInScope" =>
        LET filtering == /\ "kIsUnqualifiedForm" \in lastQuery.options
                         /\ "kAllowForeignNamespaces" \notin lastQuery.options
                         /\ NamespaceOf(lastQuery.url) # ""
        IN Range(lastQuery.result) \ {lastQuery.url} =
               {f \in Files \ {lastQuery.url} :
                   filtering => NamespaceOf(f) = NamespaceOf(lastQuery.url)}

\* an unqualified-form traversal from the namespaced file left out skin.xml
C10_Witness ==
    /\ lastQuery.op = "forEachFileInScope"
    /\ lastQuery.options = {"kIsUnqualifiedForm"}
    /\ NamespaceOf(lastQuery.url) # ""
    /\ lastQuery.result = <<lastQuery.url>>

----------------------------------------------------------------------------
(* Claims about refreshes and queries, checked under SpecRefresh *)

\* C11 (as stated): an index that was parsed before is parsed again only when
\* at least kMinRefreshInterval has passed since its previous refresh and its
\* source has changed since the last parse (newer modification time, or a
\* document whose text was edited).
C11_ReparseOnlyWhenDueAndChanged ==
    \A f \in DOMAIN skinFiles :
        LET p == skinFiles[f].lastParse
        IN ~p.first => (p.gap >= kMinRefreshInterval /\ (p.newer \/ p.edited))

\* C11 (amended): an index that was parsed before is parsed again only when
\* at least kMinRefreshInterval has passed since its previous refresh and
\* either the file is the document under validation, edited or not, or the
\* file on disk has a newer modification time.
C11_ReparseOnlyWhenDueAndDocumentOrNewer ==
    \A f \in DOMAIN skinFiles :
        LET p == skinFiles[f].lastParse
        IN ~p.first => (p.gap >= kMinRefreshInterval /\ (p.document \/ p.newer))

\* the document under validation was parsed again although nothing had changed
C11_Witness ==
    \E f \in DOMAIN skinFiles :
        LET p == skinFiles[f].lastParse
        IN ~p.first /\ p.document /\ ~p.edited /\ ~p.newer
           /\ p.gap >= kMinRefreshInterval

DuplicateDiagnostic(r) ==
    [message |-> <<IF r.type \in {"kStyle", "kAppStyle"} THEN "style" ELSE r.type, r.name>>,
     range |-> r.range, otherDefinition |-> r.otherDefinition]

\* C13: the duplicate-definition records of a file never hold two records
\* that yield the same diagnostic (same message, range and other definition).
C13_NoEqualDuplicateRecords ==
    \A f \in DOMAIN skinFiles :
        LET dups == skinFiles[f].duplicateDefinitions
        IN \A k \in 1..Len(dups) : \A j \in 1..Len(dups) :
               DuplicateDiagnostic(dups[k]) = DuplicateDiagnostic(dups[j]) => k = j

----------------------------------------------------------------------------
(* Claims about the variable resolver, checked under SpecResolver *)

\* the <foreach> around the element a string is resolved at
EnclosingForeach == extractForeach(elementChain[2], TRUE)

\* the values the resolver holds for the variable of the enclosing <foreach>
ForeachValues ==
    LET defines == SelectSeq(resolved.defines, LAMBDA d : d.name = EnclosingForeach.variable)
    IN IF defines = <<>> THEN <<>> ELSE defines[1].values

\* S, S+1, ..., S+C-1 for numeric S and C <= 100, else the single @foreach:(S,C)
UnrolledAsStated(values) ==
    LET S == elementChain[2].attribs.start
        C == elementChain[2].attribs.count
    IN IF isNumeric(S) /\ isNumeric(C) /\ toNumber(C) <= kMaxUnrolledCount
       THEN /\ Len(values) = (IF toNumber(C) > 0 THEN toNumber(C) ELSE 0)
            /\ \A k \in 1..Len(values) :
                   isNumeric(values[k]) /\ toNumber(values[k]) = toNumber(S) + k - 1
       ELSE values = <<<<"@foreach:(">> \o S \o <<",">> \o C \o <<")">> >>

RowStrings ==
    { <<"R", "o", "w", "_", "1">>, <<"R", "o", "w", "_", "2">>, <<"R", "o", "w", "_", "3">> }

\* resolving "Row_$i" inside <foreach variable="i" start="1" count="3"> gave Row_1..Row_3
RowsAsStated ==
    (/\ elementChain[2].attribs.start = <<"1">>
     /\ elementChain[2].attribs.count = <<"3">>
     /\ variable = <<"R", "o", "w", "_", "$", "i">>)
        => {resolved.strings[k] : k \in 1..Len(resolved.strings)} = RowStrings

\* the child element opens a scope of its own for the variable of the <foreach>
ChildOpensScope ==
    LET child == elementChain[1]
    IN \/ child.tagName = "Form"
       \/ child.tagName = "define" /\ \E a \in DOMAIN child.attribs :
              <<a>> = EnclosingForeach.variable
       \/ extractForeach(child, TRUE).found
              /\ extractForeach(child, TRUE).variable = EnclosingForeach.variable

----------------------------------------------------------------------------
(* Claims about the expression parser, checked under SpecParser *)

\* C15: evaluate ("(2+3)*4 > 19 & 1") returns the value true.
C15_BoolExampleIsTrue ==
    (evaluated.done /\ expression = BoolExample) => evaluated.value = Bool(TRUE)

\* C16: evaluate ("'a'+'b'") returns a result whose error is set.
C16_StringSumReportsError ==
    (evaluated.done /\ expression = StringSumExample) => evaluated.error # ""

\* C17: a division or modulo whose right operand is 0 sets its error and has
\* the value 0, and the error is still set when evaluate returns; evaluate
\* ("1/0") returns 0 with the error "Cannot divide by 0.".
C17_DivisionByZeroIsZeroWithError ==
    evaluated.done =>
        /\ \A k \in 1..Len(evaluated.ops) :
              LET o == evaluated.ops[k]
              IN (o.op \in {"kDivide", "kModulo"} /\ IsZero(o.v2)) =>
                    /\ o.value = Num(0, 1)
                    /\ o.error = (IF o.op = "kDivide" THEN "Cannot divide by 0."
                                  ELSE "Cannot modulo by 0.")
                    /\ evaluated.error # ""
        /\ expression = DivideByZeroExample =>
              /\ evaluated.value = Num(0, 1)
              /\ evaluated.error = "Cannot divide by 0."

\* "1/0" was evaluated: one division, by 0, and the value 0
C17_Witness ==
    /\ evaluated.done
    /\ expression = DivideByZeroExample
    /\ evaluated.value = Num(0, 1)
    /\ Len(evaluated.ops) = 1
    /\ evaluated.ops[1].op = "kDivide"
    /\ IsZero(evaluated.ops[1].v2)

----------------------------------------------------------------------------
(* Claims about the attribute checks, checked under SpecChecker *)

HasKeyword(value) ==
    \E keyword \in {"@eval:", "@select:", "@property:"} : Contains(value, keyword)

\* C18: an attribute value that contains @eval:, @select: or @property: on an
\* element other than <define> gets an error diagnostic.
C18_KeywordOutsideDefineIsError ==
    (checked.done /\ checkedTag.name # "define" /\ HasKeyword(checkedTag.attributeValue))
        => \E k \in 1..Len(checked.diagnostics) : checked.diagnostics[k].severity = "Error"

PassedChecks(typeCheck) == SelectSeq(typeCheck.performed, LAMBDA c : c.result = <<>>)

\* C19 (as stated): the type check adds no diagnostic if and only if at least
\* one of the checks performed passes; when every check fails it adds exactly
\* the diagnostics of the first check.
C19_AcceptedIffSomeCheckPasses ==
    checked.typeCheck.called =>
        /\ checked.typeCheck.diagnostics = <<>> <=> PassedChecks(checked.typeCheck) # <<>>
        /\ PassedChecks(checked.typeCheck) = <<>> =>
              checked.typeCheck.diagnostics = checked.typeCheck.performed[1].result

\* C19 (amended): the type check adds no diagnostic if and only if no check
\* is performed (no bit of the type has a check, or the value holds
\* @property:) or at least one of the checks performed passes; when checks
\* are performed and every one fails it adds exactly the diagnostics of the
\* first check.
C19_AcceptedIffNoCheckOrSomePasses ==
    checked.typeCheck.called =>
        /\ checked.typeCheck.diagnostics = <<>> <=>
              (checked.typeCheck.performed = <<>> \/ PassedChecks(checked.typeCheck) # <<>>)
        /\ (checked.typeCheck.performed # <<>> /\ PassedChecks(checked.typeCheck) = <<>>) =>
              checked.typeCheck.diagnostics = checked.typeCheck.performed[1].result

\* two checks were performed, both failed with different diagnostics, and the
\* diagnostics of the first were added
C19_Witness ==
    /\ checked.typeCheck.called
    /\ Len(checked.typeCheck.performed) >= 2
    /\ PassedChecks(checked.typeCheck) = <<>>
    /\ checked.typeCheck.performed[1].result # checked.typeCheck.performed[2].result
    /\ checked.typeCheck.diagnostics = checked.typeCheck.performed[1].result

----------------------------------------------------------------------------
(* Claims about the class models, checked under SpecClassModel *)

\* C20: a call of loadClassModel or loadStyleModel with the path loaded
\* before parses the file only if its modification time has changed since
\* the previous load, and otherwise changes nothing of the class model state.
C20_SamePathReparsesOnlyOnTimestampChange ==
    (lastLoad.op # "none" /\ lastLoad.again) =>
        /\ lastLoad.parsed => lastLoad.changed
        /\ ~lastLoad.changed => lastLoad.same

----------------------------------------------------------------------------
(* Claims about the loading of the models by a validation, checked under   *)
(* SpecModels                                                               *)

\* the class model path of a validation with these settings: the path
\* loadModels holds in skinElementsPath when it loads or returns
effectiveSkinElementsPath(files, skinElementsPath, visualStylesPath) ==
    LET paths == modelPaths(files, skinElementsPath, visualStylesPath)
    IN  IF paths = NoModels THEN skinElementsPath ELSE paths.skinElements

\* C29: after loadModels of a validation, whatever the settings were before,
\* the class model is loaded if the class model file exists at the
\* effective path.
C29_ClassModelLoadedWhenFileExists ==
    [][\A skinElementsPath \in SkinElementsSettings,
          visualStylesPath \in VisualStylesSettings :
          LoadModels(skinElementsPath, visualStylesPath) =>
             LET path == effectiveSkinElementsPath(modelFiles, skinElementsPath,
                                                   visualStylesPath)
             IN  (path # "" /\ modelFiles[path].exists)
                    => classModelManager'.classModel # NoModel]_vars

----------------------------------------------------------------------------
(* Claims about the schema of the class model, checked under SpecSchema     *)

\* the children group of a class: its own, or the one of the nearest class
\* along its parents that has one
ChildrenGroupOf(cache, className) ==
    LET RECURSIVE Chain(_)
        Chain(name) ==
            IF name \notin DOMAIN cache \/ ~cache[name].known THEN <<>>
            ELSE <<name>> \o (IF cache[name].parent = NoClass THEN <<>>
                              ELSE Chain(cache[name].parent))
        chain == Chain(className)
        own == {k \in 1..Len(chain) : cache[chain[k]].childrenGroup # NoGroup}
    IN  IF own = {} THEN NoGroup
        ELSE cache[chain[CHOOSE k \in own : \A j \in own : k <= j]].childrenGroup

\* the schema groups of a class: its own groups, or those of its parent when
\* it declares none, and its own name
RECURSIVE SchemaGroupSetOf(_, _)
SchemaGroupSetOf(cache, className) ==
    IF className \in DOMAIN cache /\ cache[className].known
      THEN {className} \cup
           (IF cache[className].schemaGroups # NoGroups THEN cache[className].schemaGroups
            ELSE IF cache[className].parent = NoClass THEN {}
            ELSE SchemaGroupSetOf(cache, cache[className].parent))
      ELSE {className}

\* schema information is loaded: a class of the cache has schema groups or a
\* children group
SchemaInformationLoaded(cache) ==
    \E name \in DOMAIN cache :
        /\ cache[name].known
        /\ cache[name].schemaGroups # NoGroups \/ cache[name].childrenGroup # NoGroup

\* C21: with schema information loaded, isSkinElementValidInScope is true
\* exactly if the children group of the parent is among the schema groups of
\* the child; without any schema information loaded it is true.
C21_ValidInScopeIffGroupMatches ==
    scopeCheck.called =>
        IF SchemaInformationLoaded(classDefs)
          THEN scopeCheck.result =
                  (/\ ChildrenGroupOf(classDefs, scopeCheck.parentName) # NoGroup
                   /\ ChildrenGroupOf(classDefs, scopeCheck.parentName)
                         \in SchemaGroupSetOf(classDefs, scopeCheck.childName))
          ELSE scopeCheck.result = TRUE

----------------------------------------------------------------------------
(* Claims about the completion of a tag name, checked under SpecCompletion  *)

\* the offset in the text at which a part of the text begins
RECURSIVE OffsetOfPart(_, _)
OffsetOfPart(openTags, place) ==
    IF place = 1 THEN 0
    ELSE OffsetOfPart(openTags, place - 1) + Len(openTags[place - 1]) + 1

\* the tags the scanner reports as unclosed that are opened before the cursor
UnclosedBeforeCursor ==
    LET unclosedTags == findUnclosedTags(editedText)
    IN  {k \in 1..Len(unclosedTags) :
            OffsetOfPart(split(editedText, {"<"}), unclosedTags[k].part) < targetIndex}

\* the items of the list that are preselected snippets
PreselectedSnippets ==
    SelectSeq(completionItems, LAMBDA item : item.kind = "Snippet" /\ item.preselect)

\* C22: a completion at an empty tag name behind a tag reported as unclosed
\* gives exactly one preselected snippet, the closing tag of the last
\* unclosed tag opened before the cursor.
C22_ClosingTagOfLastUnclosedTag ==
    (completionItems # NoItems /\ UnclosedBeforeCursor # {}) =>
        LET unclosedTags == findUnclosedTags(editedText)
            last == CHOOSE k \in UnclosedBeforeCursor :
                       \A j \in UnclosedBeforeCursor :
                          unclosedTags[j].part <= unclosedTags[k].part
        IN  /\ Len(PreselectedSnippets) = 1
            /\ PreselectedSnippets[1].label \in
                  {<<"/">> \o unclosedTags[last].name \o <<">">>,
                   <<"/">> \o unclosedTags[last].name}

----------------------------------------------------------------------------
(* Claims about the files included by a file, checked under SpecIncludes    *)

\* C28: every refreshDefinitions of a file of a pack comes to its end,
\* whatever files the files of the pack include.
C28_RefreshTerminates == (refresh.status = "running") ~> (refresh.status = "done")

\* C30: when the refreshDefinitions of a file has ended, every file on disk
\* that an <Include> of the file names is among its included files, missing
\* files named before it or not.
C30_MissingIncludeHidesNoOther ==
    refresh.status = "done" =>
        \A k \in 1..Len(packFiles[refresh.url].includes) :
            LET url == packFiles[refresh.url].includes[k]
            IN  packFiles[url].exists => url \in refresh.includedFiles

----------------------------------------------------------------------------
(* Claims about the index as a whole, checked under SpecIndex *)

\* C24: a query (isDefined, lookupDefinition, getDuplicateDefinitions) leaves
\* the index state of every SkinFileInfo as it is, or as refreshDefinitions
\* leaves it.
C24_QueriesChangeIndexOnlyByRefresh ==
    [][(/\ lastQuery.op = "none"
        /\ lastQuery'.op \in {"isDefined", "lookupDefinition", "getDuplicateDefinitions"})
          => \A f \in DOMAIN skinFiles :
                \/ skinFiles'[f] = skinFiles[f]
                \/ skinFiles'[f] = refreshDefinitions(skinFiles[f], FALSE)]_vars

----------------------------------------------------------------------------
(* Claims about the validation of an edited document, checked under        *)
(* SpecValidation                                                           *)

\* C27: when the validation of the edited document has built the definition
\* directory, the index of the document is the parse of its current text.
C27_ValidationIndexIsCurrent ==
    [][ValidateDocument =>
          skinFiles'[IncludedFile].lastParse.text = fileText[IncludedFile]]_vars

----------------------------------------------------------------------------
(* Claims about the validation of changed documents, checked under         *)
(* SpecServer                                                               *)

\* nothing is left to run: no timer, no validation waiting, no continuation
Quiescent == timers = {} /\ starts = <<>> /\ tasks = <<>>

\* the diagnostics of d were published by a walk started after its latest change
ValidatedSinceChange(d) ==
    \E k \in 1..Len(published) :
        /\ published[k].doc = d
        /\ walks[published[k].walk].originalTime >= changedAt[d]

\* C25: when nothing is left to run and no check throws, every document that
\* was changed has had the diagnostics of a validation of its latest content
\* published.
C25_ChangedDocumentsGetValidated ==
    (Quiescent /\ throwing = {}) =>
        \A d \in Docs : changedAt[d] > 0 => ValidatedSinceChange(d)

\* C26: a publication is made only by a walk whose originalTime is the
\* current check time and that no content change has found in flight.
C26_PublishedOnlyByCurrentWalk ==
    [][Len(published') > Len(published) =>
          LET w == walks'[published'[Len(published')].walk]
          IN /\ w.originalTime = currentCheckTime'
             /\ ~w.superseded
             /\ ~w.aborted]_vars

\* a walk found in flight by a content change is rejected, and the walk of
\* the changed content publishes
C26_Witness ==
    \E i \in 1..Len(walks), k \in 1..Len(published) :
        /\ walks[i].superseded
        /\ walks[i].aborted
        /\ published[k].walk > i
        /\ walks[published[k].walk].originalTime = currentCheckTime

----------------------------------------------------------------------------
(* Claims about variables defined by variables, checked under SpecResolution *)

\* two variables of an element define each other: a is "$b" and b is "$a"
MutualDefines ==
    <<[name |-> <<"a">>, values |-> <<<<"$", "b">>>>],
      [name |-> <<"b">>, values |-> <<<<"$", "a">>>>]>>

\* a variable of an element is defined by itself: a is "$a"
SelfDefine == <<[name |-> <<"a">>, values |-> <<<<"$", "a">>>>]>>

\* the form of every element is instantiated in the form of the next one,
\* and the form of the last one in the form of the first
CyclicForms == \A s \in Sites : viewParents[s] = <<(s % MaxSites) + 1>>

\* C23: resolve_variable terminates for every input: a call of
\* resolveVariable that entered its loop returns, also where a variable is
\* defined by itself, where two variables define each other and where forms
\* instantiate each other in a cycle
C23_ResolveVariableTerminates ==
    (resolution.phase = "resolving") ~> (resolution.phase = "done")

\* a call for "z$ab" has returned, made at an element where a and b define
\* each other, with another element where a is defined by itself and forms
\* that instantiate each other in a cycle, after resolve was called again;
\* the string is returned as it is
C23_Witness ==
    /\ resolution.phase = "done"
    /\ resolveCall.variable = <<"z", "$", "a", "b">>
    /\ viewDefines[resolveCall.site] = MutualDefines
    /\ \E s \in Sites : viewDefines[s] = SelfDefine
    /\ CyclicForms
    /\ resolution.passes > 0
    /\ resolution.replacedDependencies = <<InitToken, <<"$", "a">>, <<"$", "b">>>>
    /\ resolution.strings = <<<<"z", "$", "a", "b">>>>
====
